---------------------------- MODULE Spec2Model ----------------------------
(***************************************************************************)
(* Model of the HW 6 network solvers: the pipe network of HW6_2_OOP.py and *)
(* Problem 2.py, and the resistor network of Problem 1.py,                 *)
(* Problem_1_Test_2.py, HW6_1_2_OOP.py and Problem 2.py.                   *)
(*                                                                         *)
(* Python strings are sequences of one-character strings, Python objects   *)
(* are entries of a heap (a sequence indexed by identity), Python lists    *)
(* that can be aliased are entries of the heap "lists".  Floating point    *)
(* quantities are integers in the fixed-point units stated with each       *)
(* definition.                                                             *)
(***************************************************************************)
EXTENDS Integers, Sequences, FiniteSets, TLC

VARIABLES
    impl,       \* pipe network file in use: "HW6_2_OOP" or "Problem2"
    pipeHeap,   \* Pipe objects
    nodeHeap,   \* Node objects
    loopHeap,   \* Loop objects (pipe network)
    lists,      \* list objects held by PipeNetwork instances
    nets,       \* PipeNetwork objects
    ctorLog,    \* arguments (Start, End) of each Pipe constructor call
    pc,         \* position of the running script or client
    x0,         \* initial guess handed to (or built for) the solver
    xcur,       \* solver: current iterate
    fcur,       \* solver: residual vector at the current iterate
    lastRes,    \* residual vector returned by the last residual evaluation
    lastX,      \* argument of the last residual evaluation
    ret,        \* value returned by the solve call
    err,        \* exception raised ("" when none)
    ier,        \* status the root finder ended with (0: no solve has ended)
    rimpl,      \* resistor network class in use
    Resistors,  \* ResistorNetwork.Resistors
    VSources,   \* ResistorNetwork.VSources
    Loops,      \* ResistorNetwork.Loops
    dv,         \* last direct call of a method: method, argument, result
    FileTxt     \* lines of the circuit file given to BuildNetworkFromFile

vars == <<impl, pipeHeap, nodeHeap, loopHeap, lists, nets, ctorLog,
          pc, x0, xcur, fcur, lastRes, lastX, ret, err, ier,
          rimpl, Resistors, VSources, Loops, dv, FileTxt>>

pipeVars == <<pipeHeap, nodeHeap, loopHeap, lists, nets, ctorLog>>
solverVars == <<x0, xcur, fcur, lastRes, lastX, ret, err, ier>>
resVars == <<rimpl, Resistors, VSources, Loops, dv, FileTxt>>

-----------------------------------------------------------------------------
(* Python values                                                           *)

\* Characters in code point order ('-' < 'A' < 'B' < '_' < 'a' < ...).
Chars == <<"-", "A", "B", "_", "a", "b", "c", "d", "e", "f", "g", "h">>

Ord(c) == CHOOSE k \in 1..Len(Chars) : Chars[k] = c

Min2(a, b) == IF a < b THEN a ELSE b

\* str.__lt__: lexicographic by code point, a proper prefix is smaller.
StrLess(s, t) ==
    \E k \in 1..(Min2(Len(s), Len(t)) + 1) :
        /\ \A j \in 1..(k - 1) : s[j] = t[j]
        /\ \/ k > Len(s) /\ k <= Len(t)
           \/ k <= Len(s) /\ k <= Len(t) /\ Ord(s[k]) < Ord(t[k])

\* min(a, b) and max(a, b) of Python: the first argument wins a tie.
PyMin(a, b) == IF StrLess(b, a) THEN b ELSE a
PyMax(a, b) == IF StrLess(a, b) THEN b ELSE a

\* s[::-1]
Reverse(s) == [k \in 1..Len(s) |-> s[Len(s) + 1 - k]]

\* Float division a / b on fixed-point integers, truncated toward zero.
TDiv(a, b) ==
    LET q == (IF a < 0 THEN -a ELSE a) \div (IF b < 0 THEN -b ELSE b)
    IN  IF (a < 0) = (b < 0) THEN q ELSE -q

Abs(a) == IF a < 0 THEN -a ELSE a

RECURSIVE SumSeq(_)
SumSeq(s) == IF s = <<>> THEN 0 ELSE s[1] + SumSeq(Tail(s))

AllZero(s) == \A k \in 1..Len(s) : s[k] = 0

None == [none |-> TRUE, val |-> <<>>]
Some(v) == [none |-> FALSE, val |-> v]

-----------------------------------------------------------------------------
(* Fluid and Pipe                                                          *)

\* Fluid(mu, rho): mu in 1e-5 Pa*s, rho in kg/m^3.  Fluid is Fluid(), water.
FluidOf(mu, rho) == [mu |-> mu, rho |-> rho]
Fluid == FluidOf(89, 1000)

\* math.pi / 4.0 * d ** 2, in mm^2 for a diameter in mm.
Area(d) == (7854 * d * d) \div 10000

\* Pipe.V: Q / A, Q in L/s and A in m^2 as the code divides them.
V(Q, A) == TDiv(Q * 1000000, A)

\* Pipe.Re from a velocity: fluid.rho * vel * d / fluid.mu with d in m, the
\* quotient formed so that every intermediate value stays in 32 bits.
ReOf(fluid, vel, d) ==
    LET n == vel * d * 100
        q == TDiv(n, fluid.mu)
    IN  fluid.rho * q + TDiv(fluid.rho * (n - fluid.mu * q), fluid.mu)

\* Pipe.__init__(Start, End, L, D, r, fluid); r as passed by main.
PipeIn(Start, End, L, D, fluid) ==
    LET A == Area(D)
        vel == V(10, A)
    IN  [startNode |-> PyMin(Start, End), endNode |-> PyMax(Start, End),
         length |-> L, d |-> D, fluid |-> fluid, A |-> A, Q |-> 10,
         vel |-> vel, reynolds |-> ReOf(fluid, vel, D)]

\* Pipe.__init__ without the reordering of the end points.
PipeUnordered(Start, End, L, D) ==
    LET A == Area(D)
        vel == V(10, A)
    IN  [startNode |-> Start, endNode |-> End, length |-> L, d |-> D,
         fluid |-> Fluid, A |-> A, Q |-> 10,
         vel |-> vel, reynolds |-> ReOf(Fluid, vel, D)]

\* Pipe(Start, End, L, D, r, water) as main calls it.
Pipe(Start, End, L, D) == PipeIn(Start, End, L, D, Fluid)

\* Pipe.Name
Name(p) == p.startNode \o <<"-">> \o p.endNode

\* Pipe.oContainsNode
oContainsNode(p, node) == p.startNode = node \/ p.endNode = node

\* getFlowIntoNode without the sign for the start node.
getFlowIntoNodeUnsigned(p, n) == p.Q

\* Pipe.getFlowIntoNode
getFlowIntoNode(p, n) == IF n = p.startNode THEN -p.Q ELSE p.Q


\* Pipe.Re: HW6_2_OOP.py reads the stored self.vel, Problem 2.py calls
\* self.V() first.  Returns the pipe with vel and reynolds as left by the call.
Re(p, im) ==
    LET vel == IF im = "Problem2" THEN V(p.Q, p.A) ELSE p.vel
    IN  [p EXCEPT !.vel = vel, !.reynolds = ReOf(p.fluid, vel, p.d)]

\* CB(): the root fsolve finds for the Colebrook equation from 0.01, in 1e-9,
\* for the roughness 0.00025 m of main: per diameter at the fully rough
\* limit, which the root is within 0.5% of from Re = 1e6 on, and per Reynolds
\* number for the 0.5 m pipe of the pipe client.
CB(re, d) ==
    CASE re >= 1000000 /\ d = 150 -> 22325259
      [] re >= 1000000 /\ d = 200 -> 20747118
      [] re >= 1000000 /\ d = 250 -> 19635466
      [] re >= 1000000 /\ d = 300 -> 18792185
      [] re = 15200 /\ d = 500 -> 28642923
      [] re = 10000 /\ d = 500 -> 31644236
      [] re = 5000 /\ d = 500 -> 37948231
      [] re = 4000 /\ d = 500 -> 40411670
      [] re = 3000 /\ d = 500 -> 43967146
      [] OTHER -> 20747118

\* lam(): 64 / Re, in 1e-9 (Re is not 0).
lam(re) ==
    IF Abs(re) >= 1000000 THEN TDiv(64000000, TDiv(re, 1000))
    ELSE LET q == TDiv(64000000, re)
         IN  1000 * q + TDiv(1000 * (64000000 - re * q), re)

\* Draws of rnd.normalvariate, in standard deviations.
Draws == {-1, 0, 1}

\* FrictionFactor with the turbulent regime from above 4000 only.
FrictionFactorAbove(p, z) ==
    LET re == p.reynolds
    IN  IF re > 4000 THEN CB(re, p.d)
        ELSE IF re <= 2000 THEN lam(re)
        ELSE LET CBff == CB(re, p.d)
                 Lamff == lam(re)
                 mean == Lamff + (re - 2000) * TDiv(CBff - Lamff, 4000 - 2000)
                 sig == TDiv(2 * mean, 10)
             IN  mean + z * sig

\* Pipe.FrictionFactor on a pipe whose Re() has run; z is the draw of
\* rnd.normalvariate in standard deviations.  Value in 1e-9.
FrictionFactor(p, z) ==
    LET re == p.reynolds
    IN  IF re >= 4000 THEN CB(re, p.d)
        ELSE IF re <= 2000 THEN lam(re)
        ELSE LET CBff == CB(re, p.d)
                 Lamff == lam(re)
                 mean == Lamff + (re - 2000) * TDiv(CBff - Lamff, 4000 - 2000)
                 sig == TDiv(2 * mean, 10)
             IN  mean + z * sig

\* a * b / c of floats on fixed-point integers, formed from the quotients
\* and remainders by c so that every intermediate value stays in 32 bits.
MulDiv(a, b, c) ==
    LET qa == TDiv(a, c)
        ra == a - qa * c
        qb == TDiv(b, c)
        rb == b - qb * c
    IN  qa * b + ra * qb + TDiv(ra * rb, c)

\* Darcy-Weisbach ff * L * vel^2 / (2 * g * d) in m, g = 9.81, d in mm,
\* ff in 1e-9.
DarcyWeisbach(ff, L, vel, d) ==
    TDiv(MulDiv(ff, TDiv(vel * vel * L, d), 19620), 1000)

\* Pipe.frictionHeadLoss: Problem 2.py multiplies the Darcy-Weisbach loss by 4.
frictionHeadLoss(p, im, z) ==
    LET q == Re(p, im)
        hl == DarcyWeisbach(FrictionFactor(q, z), q.length, q.vel, q.d)
    IN  IF im = "Problem2" THEN 4 * hl ELSE hl

\* getFlowHeadLoss without the sign of the flow.
getFlowHeadLossNoFlowSign(p, s, im, z) ==
    LET nTraverse == IF s = p.startNode THEN 1 ELSE -1
    IN  nTraverse * frictionHeadLoss(p, im, z)

\* Pipe.getFlowHeadLoss
getFlowHeadLoss(p, s, im, z) ==
    LET nTraverse == IF s = p.startNode THEN 1 ELSE -1
        nFlow == IF p.Q >= 0 THEN 1 ELSE -1
    IN  nTraverse * nFlow * frictionHeadLoss(p, im, z)

-----------------------------------------------------------------------------
(* Node and Loop                                                           *)

\* Node(Name, Pipes, ExtFlow=0); pipes holds Pipe identities.
Node(nm, Pipes) == [name |-> nm, pipes |-> Pipes, extFlow |-> 0]

\* Node.getNetFlowRate
getNetFlowRate(nd, ph) ==
    nd.extFlow
      + SumSeq([k \in 1..Len(nd.pipes) |-> getFlowIntoNode(ph[nd.pipes[k]], nd.name)])

\* Loop(Name, Pipes)
Loop(nm, Pipes) == [name |-> nm, pipes |-> Pipes]

\* The traversal node when every pipe is left at its end node.
TraversalNodeForward(lp, ph, k) ==
    IF k = 1 THEN ph[lp.pipes[1]].startNode
    ELSE ph[lp.pipes[k - 1]].endNode

\* The traversal node of getLoopHeadLoss before pipe k of the loop.
RECURSIVE TraversalNode(_, _, _)
TraversalNode(lp, ph, k) ==
    IF k = 1 THEN ph[lp.pipes[1]].startNode
    ELSE LET s == TraversalNode(lp, ph, k - 1)
             p == ph[lp.pipes[k - 1]]
         IN  IF s # p.endNode THEN p.endNode ELSE p.startNode

\* Loop.getLoopHeadLoss: HW6_2_OOP.py returns abs(deltaP), Problem 2.py deltaP.
getLoopHeadLoss(lp, ph, im, z) ==
    LET deltaP == SumSeq([k \in 1..Len(lp.pipes) |->
                     getFlowHeadLoss(ph[lp.pipes[k]], TraversalNode(lp, ph, k), im, z)])
    IN  IF im = "HW6_2_OOP" THEN Abs(deltaP) ELSE deltaP

-----------------------------------------------------------------------------
(* PipeNetwork                                                             *)

\* The three lists created once for the defaults Pipes=[], Loops=[], Nodes=[]
\* of PipeNetwork.__init__.
DefPipes == 1
DefLoops == 2
DefNodes == 3

\* PipeNetwork.__init__: the instance keeps the list objects it is given.
PipeNetwork(pipesArg, loopsArg, nodesArg) ==
    [pipes |-> pipesArg, loops |-> loopsArg, nodes |-> nodesArg]

\* The Pipe, Loop and Node objects of instance n, in list order.
NetPipes(n) == [k \in 1..Len(lists[nets[n].pipes]) |-> pipeHeap[lists[nets[n].pipes][k]]]
NetNodes(n) == [k \in 1..Len(lists[nets[n].nodes]) |-> nodeHeap[lists[nets[n].nodes][k]]]
NetLoops(n) == [k \in 1..Len(lists[nets[n].loops]) |-> loopHeap[lists[nets[n].loops][k]]]

\* PipeNetwork.getNodePipes: identities of the pipes in pl that touch node.
RECURSIVE getNodePipes(_, _, _)
getNodePipes(pl, ph, node) ==
    IF pl = <<>> THEN <<>>
    ELSE (IF oContainsNode(ph[pl[1]], node) THEN <<pl[1]>> ELSE <<>>)
             \o getNodePipes(Tail(pl), ph, node)

\* PipeNetwork.nodeBuilt over the node list nl of heap nh.
nodeBuilt(nl, nh, node) == \E k \in 1..Len(nl) : nh[nl[k]].name = node

\* One append of buildNodes: st = [nh: node heap, nl: node list].
AddNode(st, pl, ph, node) ==
    IF nodeBuilt(st.nl, st.nh, node) THEN st
    ELSE [nh |-> Append(st.nh, Node(node, getNodePipes(pl, ph, node))),
          nl |-> Append(st.nl, Len(st.nh) + 1)]

\* PipeNetwork.buildNodes from pipe k on.
RECURSIVE buildNodes(_, _, _, _)
buildNodes(st, pl, ph, k) ==
    IF k > Len(pl) THEN st
    ELSE LET p == ph[pl[k]]
             s1 == AddNode(st, pl, ph, p.startNode)
             s2 == AddNode(s1, pl, ph, p.endNode)
         IN  buildNodes(s2, pl, ph, k + 1)

\* PipeNetwork.getPipe: identity of the first pipe of pl named nm (0: None).
getPipe(pl, ph, nm) ==
    IF \E k \in 1..Len(pl) : Name(ph[pl[k]]) = nm
    THEN pl[CHOOSE k \in 1..Len(pl) :
                /\ Name(ph[pl[k]]) = nm
                /\ \A j \in 1..(k - 1) : Name(ph[pl[j]]) # nm]
    ELSE 0

\* PipeNetwork.getNode: identity of the first node of nl named nm (0: None).
getNode(nl, nh, nm) ==
    IF \E k \in 1..Len(nl) : nh[nl[k]].name = nm
    THEN nl[CHOOSE k \in 1..Len(nl) :
                /\ nh[nl[k]].name = nm
                /\ \A j \in 1..(k - 1) : nh[nl[j]].name # nm]
    ELSE 0

\* PipeNetwork.getNodeFlowRates
getNodeFlowRates(n, ph) ==
    [k \in 1..Len(lists[nets[n].nodes]) |->
        getNetFlowRate(nodeHeap[lists[nets[n].nodes][k]], ph)]

\* PipeNetwork.getLoopHeadLosses
getLoopHeadLosses(n, ph, im, z) ==
    [k \in 1..Len(lists[nets[n].loops]) |->
        getLoopHeadLoss(loopHeap[lists[nets[n].loops][k]], ph, im, z)]

\* The pipe heap after getLoopHeadLosses: every pipe of a loop of instance n
\* has had Re() called on it.
AfterHeadLosses(n, ph, im) ==
    [k \in 1..Len(ph) |->
        IF \E l \in 1..Len(lists[nets[n].loops]) :
              \E j \in 1..Len(loopHeap[lists[nets[n].loops][l]].pipes) :
                  loopHeap[lists[nets[n].loops][l]].pipes[j] = k
        THEN Re(ph[k], im) ELSE ph[k]]

\* The pipe heap after "self.pipes[i].Q = q[i]" for every pipe of instance n.
SetFlows(n, q) ==
    LET pl == lists[nets[n].pipes]
    IN  [k \in 1..Len(pipeHeap) |->
            IF \E i \in 1..Len(pl) : pl[i] = k
            THEN [pipeHeap[k] EXCEPT
                    !.Q = q[CHOOSE i \in 1..Len(pl) :
                               pl[i] = k /\ \A j \in (i + 1)..Len(pl) : pl[j] # k]]
            ELSE pipeHeap[k]]

\* findFlowRates.fn(q): the residual vector returned for q.
fn(n, q, im, z) ==
    LET ph == SetFlows(n, q)
    IN  getNodeFlowRates(n, ph) \o getLoopHeadLosses(n, ph, im, z)

-----------------------------------------------------------------------------
(* A client of the pipe network classes: pipes from any two names, several *)
(* PipeNetwork instances.                                                  *)

\* Pipe objects a client creates, and the length a client grows a list to.
MaxPipes == 2
MaxListLen == 2

\* The PipeNetwork instances of a client: two, constructed one after the other.
NetIds == {1, 2}

\* Node names a client passes to Pipe(...): all of them, and the two the
\* network client uses.
CtorNames == {<<"A">>, <<"a">>, <<"b">>, <<"a", "b">>}
ApiNames == {<<"a">>, <<"b">>}

At(label) == [at |-> label, k |-> 0]

\* No method has been called directly yet.
NoCall == [called |-> FALSE, op |-> "", name |-> <<>>, ret |-> None, sums |-> <<>>, err |-> ""]

IdleSolver ==
    /\ x0 = <<>> /\ xcur = <<>> /\ fcur = <<>> /\ lastRes = <<>> /\ lastX = <<>>
    /\ ret = None /\ err = "" /\ ier = 0

\* State after the class definitions have run: the default lists exist.
InitHeap ==
    /\ impl \in {"HW6_2_OOP", "Problem2"}
    /\ pipeHeap = <<>> /\ nodeHeap = <<>> /\ loopHeap = <<>>
    /\ lists = <<<<>>, <<>>, <<>>>>
    /\ nets = <<>>
    /\ ctorLog = <<>>
    /\ IdleSolver
    /\ rimpl = "" /\ Resistors = <<>> /\ VSources = <<>> /\ Loops = <<>>
    /\ dv = NoCall
    /\ FileTxt = <<>>

InitApi == InitHeap /\ pc = At("api")

\* Pipe constructor calls of the client that only constructs pipes.
MaxCtorCalls == 2

\* p = Pipe(Start, End), nothing else done with it.
CtorNewPipe(Start, End) ==
    /\ pc.at = "api"
    /\ UNCHANGED resVars
    /\ Len(pipeHeap) < MaxCtorCalls
    /\ pipeHeap' = Append(pipeHeap, Pipe(Start, End, 100, 200))
    /\ ctorLog' = Append(ctorLog, [Start |-> Start, End |-> End])
    /\ UNCHANGED <<impl, nodeHeap, loopHeap, lists, nets, pc>>
    /\ UNCHANGED solverVars

\* p = Pipe(Start, End)
ApiNewPipe(Start, End) ==
    /\ pc.at = "api"
    /\ UNCHANGED resVars
    /\ Len(pipeHeap) < MaxPipes
    /\ pipeHeap' = Append(pipeHeap, Pipe(Start, End, 100, 200))
    /\ ctorLog' = Append(ctorLog, [Start |-> Start, End |-> End])
    /\ UNCHANGED <<impl, nodeHeap, loopHeap, lists, nets, pc>>
    /\ UNCHANGED solverVars

\* PN = PipeNetwork(): the instance holds the default list objects.
ApiNewNetworkDefault ==
    /\ pc.at = "api"
    /\ UNCHANGED resVars
    /\ Len(nets) < Cardinality(NetIds)
    /\ nets' = Append(nets, PipeNetwork(DefPipes, DefLoops, DefNodes))
    /\ UNCHANGED <<impl, pipeHeap, nodeHeap, loopHeap, lists, ctorLog, pc>>
    /\ UNCHANGED solverVars

\* PN = PipeNetwork([], [], []): the instance holds three new lists.
ApiNewNetworkExplicit ==
    /\ pc.at = "api"
    /\ UNCHANGED resVars
    /\ Len(nets) < Cardinality(NetIds)
    /\ lists' = lists \o <<<<>>, <<>>, <<>>>>
    /\ nets' = Append(nets, PipeNetwork(Len(lists) + 1, Len(lists) + 2, Len(lists) + 3))
    /\ UNCHANGED <<impl, pipeHeap, nodeHeap, loopHeap, ctorLog, pc>>
    /\ UNCHANGED solverVars

\* PN.pipes.append(p)
ApiAppendPipe(n, p) ==
    /\ pc.at = "api"
    /\ UNCHANGED resVars
    /\ n \in 1..Len(nets) /\ p \in 1..Len(pipeHeap)
    /\ Len(lists[nets[n].pipes]) < MaxListLen
    /\ lists' = [lists EXCEPT ![nets[n].pipes] = Append(@, p)]
    /\ UNCHANGED <<impl, pipeHeap, nodeHeap, loopHeap, nets, ctorLog, pc>>
    /\ UNCHANGED solverVars

\* PN.buildNodes()
ApiBuildNodes(n) ==
    /\ pc.at = "api"
    /\ UNCHANGED resVars
    /\ n \in 1..Len(nets)
    /\ LET st == buildNodes([nh |-> nodeHeap, nl |-> lists[nets[n].nodes]],
                            lists[nets[n].pipes], pipeHeap, 1)
       IN  /\ nodeHeap' = st.nh
           /\ lists' = [lists EXCEPT ![nets[n].nodes] = st.nl]
    /\ UNCHANGED <<impl, pipeHeap, loopHeap, nets, ctorLog, pc>>
    /\ UNCHANGED solverVars

\* PN.loops.append(Loop('A', [the pipes of PN]))
ApiAppendLoop(n) ==
    /\ pc.at = "api"
    /\ UNCHANGED resVars
    /\ n \in 1..Len(nets)
    /\ Len(loopHeap) < MaxListLen
    /\ lists[nets[n].pipes] # <<>>
    /\ loopHeap' = Append(loopHeap, Loop(<<"A">>, lists[nets[n].pipes]))
    /\ lists' = [lists EXCEPT ![nets[n].loops] = Append(@, Len(loopHeap) + 1)]
    /\ UNCHANGED <<impl, pipeHeap, nodeHeap, nets, ctorLog, pc>>
    /\ UNCHANGED solverVars

NextApi ==
    \/ \E Start \in ApiNames, End \in ApiNames : ApiNewPipe(Start, End)
    \/ ApiNewNetworkDefault
    \/ ApiNewNetworkExplicit
    \/ \E n \in NetIds, p \in 1..MaxPipes : ApiAppendPipe(n, p)
    \/ \E n \in NetIds : ApiBuildNodes(n)
    \/ \E n \in NetIds : ApiAppendLoop(n)

SpecApi == InitApi /\ [][NextApi]_vars

\* Pipe construction alone.
NextCtor == \E Start \in CtorNames, End \in CtorNames : CtorNewPipe(Start, End)

SpecCtor == InitApi /\ [][NextCtor]_vars

-----------------------------------------------------------------------------
(* A client of one Pipe object: it assigns Q, as the residual function     *)
(* does, and calls the methods of the pipe.                                *)

\* Fluid(mu=0.0025, rho=1): in the 0.5 m pipe the Reynolds number is 200
\* times the velocity.
Thin == FluidOf(250, 1)

\* The pipe of the client: a pipe of main, or a 0.5 m pipe of the thin fluid.
ClientPipes == { PipeIn(<<"a">>, <<"b">>, 125, 200, Fluid),
                 PipeIn(<<"a">>, <<"b">>, 100, 500, Thin) }

\* Flows in L/s the client assigns.
ClientFlows == {-15, -3, -2, 0, 2, 3, 4, 15}

\* Method calls of the client.
MaxCalls == 2

InitPipe ==
    /\ impl \in {"HW6_2_OOP", "Problem2"}
    /\ \E p \in ClientPipes : pipeHeap = <<p>>
    /\ nodeHeap = <<>> /\ loopHeap = <<>>
    /\ lists = <<<<>>, <<>>, <<>>>> /\ nets = <<>> /\ ctorLog = <<>>
    /\ IdleSolver
    /\ rimpl = "" /\ Resistors = <<>> /\ VSources = <<>> /\ Loops = <<>>
    /\ dv = NoCall
    /\ FileTxt = <<>>
    /\ pc = At("pipe")

\* The call op(arg) of the client returned val.
Returned(op, arg, val) ==
    [called |-> TRUE, op |-> op, name |-> arg, ret |-> Some(val), sums |-> <<>>, err |-> ""]

\* p.Q = q
PipeSetQ(q) ==
    /\ pc.at = "pipe"
    /\ pipeHeap' = [pipeHeap EXCEPT ![1].Q = q]
    /\ UNCHANGED <<impl, nodeHeap, loopHeap, lists, nets, ctorLog, pc>>
    /\ UNCHANGED solverVars
    /\ UNCHANGED resVars

\* A method of the pipe that calls Re(): with Re = 0 the call ends in lam()
\* with ZeroDivisionError, otherwise it returns val.
PipeCall(op, arg, val) ==
    /\ pc.at = "pipe" /\ pc.k < MaxCalls
    /\ pipeHeap' = [pipeHeap EXCEPT ![1] = Re(pipeHeap[1], impl)]
    /\ IF Re(pipeHeap[1], impl).reynolds = 0
       THEN /\ err' = "ZeroDivisionError"
            /\ pc' = [at |-> "raised", k |-> pc.k + 1]
            /\ UNCHANGED dv
       ELSE /\ dv' = Returned(op, arg, val)
            /\ pc' = [at |-> "pipe", k |-> pc.k + 1]
            /\ UNCHANGED err
    /\ UNCHANGED <<impl, nodeHeap, loopHeap, lists, nets, ctorLog>>
    /\ UNCHANGED <<x0, xcur, fcur, lastRes, lastX, ret, ier>>
    /\ UNCHANGED <<rimpl, Resistors, VSources, Loops, FileTxt>>

\* p.V()
PipeV ==
    /\ pc.at = "pipe" /\ pc.k < MaxCalls
    /\ pipeHeap' = [pipeHeap EXCEPT ![1].vel = V(pipeHeap[1].Q, pipeHeap[1].A)]
    /\ dv' = Returned("V", <<>>, V(pipeHeap[1].Q, pipeHeap[1].A))
    /\ pc' = [at |-> "pipe", k |-> pc.k + 1]
    /\ UNCHANGED <<impl, nodeHeap, loopHeap, lists, nets, ctorLog>>
    /\ UNCHANGED solverVars
    /\ UNCHANGED <<rimpl, Resistors, VSources, Loops, FileTxt>>

\* p.FrictionFactor()
PipeFrictionFactor(z) ==
    PipeCall("FrictionFactor", <<>>, FrictionFactor(Re(pipeHeap[1], impl), z))

\* p.frictionHeadLoss()
PipeFrictionHeadLoss(z) ==
    PipeCall("frictionHeadLoss", <<>>, frictionHeadLoss(pipeHeap[1], impl, z))

\* p.getFlowHeadLoss(s)
PipeGetFlowHeadLoss(s, z) ==
    PipeCall("getFlowHeadLoss", s, getFlowHeadLoss(pipeHeap[1], s, impl, z))

NextPipe ==
    \/ \E q \in ClientFlows : PipeSetQ(q)
    \/ PipeV
    \/ \E z \in Draws : PipeFrictionFactor(z)
    \/ \E z \in Draws : PipeFrictionHeadLoss(z)
    \/ \E s \in ApiNames, z \in Draws : PipeGetFlowHeadLoss(s, z)

SpecPipe == InitPipe /\ [][NextPipe]_vars

-----------------------------------------------------------------------------
(* main() of HW6_2_OOP.py and Problem 2.py: the eight-node example.        *)

nm(c) == <<c>>

\* The statements of main, in order.
MainScript == <<
    [op |-> "PipeNetwork"],
    [op |-> "Pipe", Start |-> nm("a"), End |-> nm("b"), L |-> 250, D |-> 300],
    [op |-> "Pipe", Start |-> nm("a"), End |-> nm("c"), L |-> 100, D |-> 200],
    [op |-> "Pipe", Start |-> nm("b"), End |-> nm("e"), L |-> 100, D |-> 200],
    [op |-> "Pipe", Start |-> nm("c"), End |-> nm("d"), L |-> 125, D |-> 200],
    [op |-> "Pipe", Start |-> nm("c"), End |-> nm("f"), L |-> 100, D |-> 150],
    [op |-> "Pipe", Start |-> nm("d"), End |-> nm("e"), L |-> 125, D |-> 200],
    [op |-> "Pipe", Start |-> nm("d"), End |-> nm("g"), L |-> 100, D |-> 150],
    [op |-> "Pipe", Start |-> nm("e"), End |-> nm("h"), L |-> 100, D |-> 150],
    [op |-> "Pipe", Start |-> nm("f"), End |-> nm("g"), L |-> 125, D |-> 250],
    [op |-> "Pipe", Start |-> nm("g"), End |-> nm("h"), L |-> 125, D |-> 250],
    [op |-> "buildNodes"],
    [op |-> "extFlow", node |-> nm("a"), flow |-> 60],
    [op |-> "extFlow", node |-> nm("d"), flow |-> -30],
    [op |-> "extFlow", node |-> nm("f"), flow |-> -15],
    [op |-> "extFlow", node |-> nm("h"), flow |-> -15],
    [op |-> "Loop", name |-> nm("A"),
     pipes |-> <<<<"a", "-", "b">>, <<"b", "-", "e">>, <<"d", "-", "e">>,
                 <<"c", "-", "d">>, <<"a", "-", "c">>>>],
    [op |-> "Loop", name |-> nm("B"),
     pipes |-> <<<<"c", "-", "d">>, <<"d", "-", "g">>, <<"f", "-", "g">>,
                 <<"c", "-", "f">>>>],
    [op |-> "Loop", name |-> nm("C"),
     pipes |-> <<<<"d", "-", "e">>, <<"e", "-", "h">>, <<"g", "-", "h">>,
                 <<"d", "-", "g">>>>],
    [op |-> "findFlowRates"],
    [op |-> "print"] >>

\* PN, the one PipeNetwork of main.
PN == 1

Stmt == MainScript[pc.k]
AtMain(o) == pc.at = "main" /\ pc.k <= Len(MainScript) /\ Stmt.op = o
NextStmt == [at |-> "main", k |-> pc.k + 1]

InitMain == InitHeap /\ pc = [at |-> "main", k |-> 1]

\* PN = PipeNetwork()
MainPipeNetwork ==
    /\ AtMain("PipeNetwork")
    /\ UNCHANGED resVars
    /\ nets' = Append(nets, PipeNetwork(DefPipes, DefLoops, DefNodes))
    /\ pc' = NextStmt
    /\ UNCHANGED <<impl, pipeHeap, nodeHeap, loopHeap, lists, ctorLog>>
    /\ UNCHANGED solverVars

\* PN.pipes.append(Pipe(Start, End, L, D, roughness, water))
MainAppendPipe ==
    /\ AtMain("Pipe")
    /\ UNCHANGED resVars
    /\ pipeHeap' = Append(pipeHeap, Pipe(Stmt.Start, Stmt.End, Stmt.L, Stmt.D))
    /\ ctorLog' = Append(ctorLog, [Start |-> Stmt.Start, End |-> Stmt.End])
    /\ lists' = [lists EXCEPT ![nets[PN].pipes] = Append(@, Len(pipeHeap) + 1)]
    /\ pc' = NextStmt
    /\ UNCHANGED <<impl, nodeHeap, loopHeap, nets>>
    /\ UNCHANGED solverVars

\* PN.buildNodes()
MainBuildNodes ==
    /\ AtMain("buildNodes")
    /\ UNCHANGED resVars
    /\ LET st == buildNodes([nh |-> nodeHeap, nl |-> lists[nets[PN].nodes]],
                            lists[nets[PN].pipes], pipeHeap, 1)
       IN  /\ nodeHeap' = st.nh
           /\ lists' = [lists EXCEPT ![nets[PN].nodes] = st.nl]
    /\ pc' = NextStmt
    /\ UNCHANGED <<impl, pipeHeap, loopHeap, nets, ctorLog>>
    /\ UNCHANGED solverVars

\* PN.getNode(node).extFlow = flow
MainExtFlow ==
    /\ AtMain("extFlow")
    /\ UNCHANGED resVars
    /\ LET nd == getNode(lists[nets[PN].nodes], nodeHeap, Stmt.node)
       IN  /\ nd # 0
           /\ nodeHeap' = [nodeHeap EXCEPT ![nd].extFlow = Stmt.flow]
    /\ pc' = NextStmt
    /\ UNCHANGED <<impl, pipeHeap, loopHeap, lists, nets, ctorLog>>
    /\ UNCHANGED solverVars

\* PN.loops.append(Loop(name, [PN.getPipe(...), ...]))
MainAppendLoop ==
    /\ AtMain("Loop")
    /\ UNCHANGED resVars
    /\ LET ps == [k \in 1..Len(Stmt.pipes) |->
                    getPipe(lists[nets[PN].pipes], pipeHeap, Stmt.pipes[k])]
       IN  loopHeap' = Append(loopHeap, Loop(Stmt.name, ps))
    /\ lists' = [lists EXCEPT ![nets[PN].loops] = Append(@, Len(loopHeap) + 1)]
    /\ pc' = NextStmt
    /\ UNCHANGED <<impl, pipeHeap, nodeHeap, nets, ctorLog>>
    /\ UNCHANGED solverVars

\* np.full(n, 10)
Full(n, v) == [k \in 1..n |-> v]

\* PipeNetwork.findFlowRates of HW6_2_OOP.py: N and Q0 are built, fn is
\* defined, and the method ends without calling the solver (returns None).
FindFlowRatesOOP ==
    /\ AtMain("findFlowRates")
    /\ UNCHANGED resVars
    /\ impl = "HW6_2_OOP"
    /\ x0' = Full(Len(lists[nets[PN].pipes]), 10)
    /\ ret' = None
    /\ pc' = NextStmt
    /\ UNCHANGED <<xcur, fcur, lastRes, lastX, err, ier, impl>>
    /\ UNCHANGED pipeVars

\* PipeNetwork.findFlowRates of Problem 2.py up to the call fsolve(fn, Q0).
FindFlowRatesP2 ==
    /\ AtMain("findFlowRates")
    /\ UNCHANGED resVars
    /\ impl = "Problem2"
    /\ x0' = Full(Len(lists[nets[PN].nodes]) + Len(lists[nets[PN].loops]), 10)
    /\ pc' = [at |-> "fsolve", k |-> pc.k]
    /\ UNCHANGED <<xcur, fcur, lastRes, lastX, ret, err, ier, impl>>
    /\ UNCHANGED pipeVars

\* Flow vectors the solver tries, in pipe order a-b, a-c, b-e, c-d, c-f, d-e,
\* d-g, e-h, f-g, g-h: the initial guess, a forward-difference step from it,
\* two vectors that balance every node, and two that do not.
FlowCands == {
    <<10, 10, 10, 10, 10, 10, 10, 10, 10, 10>>,
    <<11, 10, 10, 10, 10, 10, 10, 10, 10, 10>>,
    <<20, 40, 20, 20, 20, -15, 5, 5, 5, 10>>,
    <<30, 30, 30, 10, 20, -25, 5, 5, 5, 10>>,
    <<30, 30, 30, 15, 15, 5, 10, 5, 5, 10>>,
    <<5, 5, 5, 5, 5, -5, 5, 5, 5, 5>> }

\* A flow vector as a solver vector of length n (further components 10).
PadTo(c, n) == [k \in 1..n |-> IF k <= Len(c) THEN c[k] ELSE 10]

\* One call fn(q) made by the solver: the pipes keep q, Re() has run on the
\* pipes of the loops, and the residual vector is returned.
CallFn(q, z) ==
    /\ lastX' = q
    /\ lastRes' = fn(PN, q, impl, z)
    /\ pipeHeap' = AfterHeadLosses(PN, SetFlows(PN, q), impl)

\* fsolve: the first call fn(Q0) and the shape check of its result.
FsolveCheck ==
    /\ pc.at = "fsolve"
    /\ UNCHANGED resVars
    /\ \E z \in Draws :
        /\ CallFn(x0, z)
        /\ IF Len(fn(PN, x0, impl, z)) # Len(x0)
           THEN /\ err' = "TypeError"
                /\ pc' = [at |-> "raised", k |-> pc.k]
                /\ UNCHANGED <<xcur, fcur>>
           ELSE /\ xcur' = x0
                /\ fcur' = fn(PN, x0, impl, z)
                /\ pc' = [at |-> "hybrd", k |-> pc.k]
                /\ UNCHANGED err
    /\ UNCHANGED <<impl, nodeHeap, loopHeap, lists, nets, ctorLog, x0, ret, ier>>

\* fsolve: one more call fn(q), at a trial point or a finite-difference
\* point; the solver keeps the point as its iterate or does not.  hybrd ends
\* as soon as an iterate it has moved to has an all-zero residual.
FsolveEval(c, accept) ==
    /\ pc.at = "hybrd"
    /\ UNCHANGED resVars
    /\ ~AllZero(fcur) \/ xcur = x0
    /\ \E z \in Draws :
        LET q == PadTo(c, Len(x0))
        IN  /\ CallFn(q, z)
            /\ IF accept
               THEN xcur' = q /\ fcur' = fn(PN, q, impl, z)
               ELSE UNCHANGED <<xcur, fcur>>
    /\ UNCHANGED <<impl, nodeHeap, loopHeap, lists, nets, ctorLog, x0, ret, err, ier, pc>>

\* Statuses hybrd ends with: 1 the iterates converged; 2 the call limit was
\* reached; 5 the iteration is not making good progress.
Iers == {1, 2, 5}

\* fsolve called without full_output warns (RuntimeWarning) when the status
\* is not 1; called with full_output = 1 it returns the status and is silent.
Warned(full_output, status) == ~full_output /\ status \notin {0, 1}

\* fsolve ends with status i and returns its iterate, and findFlowRates
\* returns it (FR).  An iterate with an all-zero residual ends with status 1.
FsolveReturn(i) ==
    /\ pc.at = "hybrd"
    /\ AllZero(fcur) => i = 1
    /\ ier' = i
    /\ UNCHANGED resVars
    /\ ret' = Some(xcur)
    /\ pc' = NextStmt
    /\ UNCHANGED <<x0, xcur, fcur, lastRes, lastX, err, impl>>
    /\ UNCHANGED pipeVars

\* printPipeFlowRates, printNetNodeFlows, printLoopHeadLoss
MainPrint ==
    /\ AtMain("print")
    /\ UNCHANGED resVars
    /\ pipeHeap' = AfterHeadLosses(PN, pipeHeap, impl)
    /\ pc' = NextStmt
    /\ UNCHANGED <<impl, nodeHeap, loopHeap, lists, nets, ctorLog>>
    /\ UNCHANGED solverVars

NextMain ==
    \/ MainPipeNetwork
    \/ MainAppendPipe
    \/ MainBuildNodes
    \/ MainExtFlow
    \/ MainAppendLoop
    \/ FindFlowRatesOOP
    \/ FindFlowRatesP2
    \/ FsolveCheck
    \/ \E c \in FlowCands, accept \in BOOLEAN : FsolveEval(c, accept)
    \/ \E i \in Iers : FsolveReturn(i)
    \/ MainPrint

SpecMain == InitMain /\ [][NextMain]_vars

-----------------------------------------------------------------------------
(* Resistor network: ResistorNetwork of Problem 1.py ("Problem1") and of   *)
(* Problem_1_Test_2.py ("Test2"), ResistorNetwork2 of HW6_1_2_OOP.py       *)
(* ("OOP12") and of Problem 2.py ("P2RN2").  The methods the subclasses    *)
(* inherit are the ones Problem 1.py and Problem_1_Test_2.py both define.  *)

\* Resistor(R, i, name) and Resistor.DeltaV
Resistor(R, i, name) == [Resistance |-> R, Current |-> i, Name |-> name]
DeltaV(r) == r.Current * r.Resistance

\* VoltageSource(V, name)
VoltageSource(Vlt, name) == [Voltage |-> Vlt, Name |-> name]

\* Index of the first element of es whose Name is name or name reversed (0: none).
FirstNamed(es, name) ==
    IF \E k \in 1..Len(es) : name = es[k].Name \/ Reverse(name) = es[k].Name
    THEN CHOOSE k \in 1..Len(es) :
            /\ name = es[k].Name \/ Reverse(name) = es[k].Name
            /\ \A j \in 1..(k - 1) : ~(name = es[j].Name \/ Reverse(name) = es[j].Name)
    ELSE 0

\* GetElementDeltaV with the sign of a resistor's drop reversed for the
\* reverse-spelled name.
GetElementDeltaVSigned(name, rs, vs) ==
    LET r == FirstNamed(rs, name)
        v == FirstNamed(vs, name)
    IN  IF r # 0
        THEN IF name = rs[r].Name THEN Some(-DeltaV(rs[r])) ELSE Some(DeltaV(rs[r]))
        ELSE IF v # 0
        THEN IF name = vs[v].Name THEN Some(vs[v].Voltage) ELSE Some(vs[v].Voltage)
        ELSE None

\* ResistorNetwork.GetElementDeltaV: the resistors are searched first, then
\* the sources; a name that matches nothing falls off the end (None).
GetElementDeltaV(name, rs, vs) ==
    LET r == FirstNamed(rs, name)
        v == FirstNamed(vs, name)
    IN  IF r # 0
        THEN IF name = rs[r].Name THEN Some(-DeltaV(rs[r])) ELSE Some(-DeltaV(rs[r]))
        ELSE IF v # 0
        THEN IF name = vs[v].Name THEN Some(vs[v].Voltage) ELSE Some(vs[v].Voltage)
        ELSE None

\* The name GetLoopVoltageDrops looks up at position k (from 1) of a loop.
SegmentName(Nodes, k) ==
    IF k = Len(Nodes) THEN Nodes[1] \o Nodes[k] ELSE Nodes[k] \o Nodes[k + 1]

\* GetLoopVoltageDrops without the closing segment of each loop.
GetLoopVoltageDropsOpen(rs, vs, ls) ==
    LET seg(l, k) == GetElementDeltaV(SegmentName(ls[l].Nodes, k), rs, vs)
    IN  IF \E l \in 1..Len(ls) : \E k \in 1..(Len(ls[l].Nodes) - 1) : seg(l, k).none
        THEN [err |-> "TypeError", val |-> <<>>]
        ELSE [err |-> "",
              val |-> [l \in 1..Len(ls) |->
                         SumSeq([k \in 1..(Len(ls[l].Nodes) - 1) |-> seg(l, k).val])]]

\* ResistorNetwork.GetLoopVoltageDrops: one sum per loop; adding None to the
\* sum raises TypeError.
GetLoopVoltageDrops(rs, vs, ls) ==
    LET seg(l, k) == GetElementDeltaV(SegmentName(ls[l].Nodes, k), rs, vs)
    IN  IF \E l \in 1..Len(ls) : \E k \in 1..Len(ls[l].Nodes) : seg(l, k).none
        THEN [err |-> "TypeError", val |-> <<>>]
        ELSE [err |-> "",
              val |-> [l \in 1..Len(ls) |->
                         SumSeq([k \in 1..Len(ls[l].Nodes) |-> seg(l, k).val])]]

\* GetResistorByName accepting the reverse spelling as well.
GetResistorByEitherName(name, rs) == FirstNamed(rs, name)

\* ResistorNetwork.GetResistorByName: index of the first resistor named name
\* (0: None).
GetResistorByName(name, rs) ==
    IF \E k \in 1..Len(rs) : rs[k].Name = name
    THEN CHOOSE k \in 1..Len(rs) :
            rs[k].Name = name /\ \A j \in 1..(k - 1) : rs[j].Name # name
    ELSE 0

parallel_resistor ==
    <<"p", "a", "r", "a", "l", "l", "e", "l", "_", "r", "e", "s", "i", "s", "t", "o", "r">>

\* The statements "self.GetResistorByName(nm).Current = i[ix]" of
\* GetKirchoffVals, in order (ix counted from 1).
Assignments(variant) ==
    CASE variant = "OOP12" ->
            <<[nm |-> <<"a", "d">>, ix |-> 1], [nm |-> <<"b", "c">>, ix |-> 1],
              [nm |-> <<"c", "d">>, ix |-> 3], [nm |-> <<"c", "e">>, ix |-> 2],
              [nm |-> <<"d", "f">>, ix |-> 4]>>
      [] variant = "P2RN2" ->
            <<[nm |-> <<"a", "d">>, ix |-> 1], [nm |-> <<"b", "c">>, ix |-> 1],
              [nm |-> parallel_resistor, ix |-> 5], [nm |-> <<"c", "e">>, ix |-> 2]>>
      [] OTHER ->
            <<[nm |-> <<"a", "d">>, ix |-> 1], [nm |-> <<"b", "c">>, ix |-> 1],
              [nm |-> <<"c", "d">>, ix |-> 3], [nm |-> <<"c", "e">>, ix |-> 2]>>

\* As RunAssignments, with i[ix] stored in the Resistance of the resistor.
RECURSIVE RunAssignmentsToResistance(_, _, _)
RunAssignmentsToResistance(rs, i, as) ==
    IF as = <<>> THEN [err |-> "", rs |-> rs]
    ELSE IF as[1].ix > Len(i) THEN [err |-> "IndexError", rs |-> rs]
    ELSE IF GetResistorByName(as[1].nm, rs) = 0 THEN [err |-> "AttributeError", rs |-> rs]
    ELSE RunAssignmentsToResistance(
            [rs EXCEPT ![GetResistorByName(as[1].nm, rs)].Resistance = i[as[1].ix]],
            i, Tail(as))

\* The assignments as run: i[ix] is read first (IndexError), then the
\* resistor is looked up and its Current set (AttributeError on None).
RECURSIVE RunAssignments(_, _, _)
RunAssignments(rs, i, as) ==
    IF as = <<>> THEN [err |-> "", rs |-> rs]
    ELSE IF as[1].ix > Len(i) THEN [err |-> "IndexError", rs |-> rs]
    ELSE IF GetResistorByName(as[1].nm, rs) = 0 THEN [err |-> "AttributeError", rs |-> rs]
    ELSE RunAssignments([rs EXCEPT ![GetResistorByName(as[1].nm, rs)].Current = i[as[1].ix]],
                        i, Tail(as))

\* Node_c_Current of GetKirchoffVals
Node_c_Current(variant, i) ==
    IF variant = "OOP12" THEN i[1] + i[2] - i[3] - i[4] ELSE i[1] + i[2] - i[3]

\* GetKirchoffVals(i): the exception raised, the resistors as left by the
\* call, and the vector returned.
GetKirchoffVals(variant, i, rs, vs, ls) ==
    LET a == RunAssignments(rs, i, Assignments(variant))
        KVL == GetLoopVoltageDrops(a.rs, vs, ls)
    IN  IF a.err # "" THEN [err |-> a.err, rs |-> a.rs, res |-> <<>>]
        ELSE IF Len(i) < 3 THEN [err |-> "IndexError", rs |-> a.rs, res |-> <<>>]
        ELSE IF KVL.err # "" THEN [err |-> KVL.err, rs |-> a.rs, res |-> <<>>]
        ELSE [err |-> "", rs |-> a.rs,
              res |-> CASE variant = "Problem1" ->
                              KVL.val \o <<Node_c_Current(variant, i)>>
                        [] variant = "OOP12" ->
                              KVL.val \o <<Node_c_Current(variant, i)>> \o <<0>>
                        [] OTHER -> Full(Len(i), 0)]

\* The initial guess i0 of AnalyzeCircuit.
InitialGuess(variant, rs) ==
    CASE variant = "Problem1" -> Full(5, 0)
      [] variant = "OOP12" -> <<2, 6, 8, 0>>
      [] OTHER -> Full(Len(rs), 0)

\* Networks BuildNetworkFromFile leaves behind: the circuit of the homework
\* (resistors ad, bc, cd, ce, sources ab and de), with or without a fifth
\* resistor, and with one, two or four loop blocks in the file.
BaseResistors ==
    <<Resistor(2, 0, <<"a", "d">>), Resistor(2, 0, <<"b", "c">>),
      Resistor(1, 0, <<"c", "d">>), Resistor(4, 0, <<"c", "e">>)>>

FileResistors ==
    { BaseResistors,
      Append(BaseResistors, Resistor(2, 0, <<"d", "f">>)),
      Append(BaseResistors, Resistor(2, 0, parallel_resistor)) }

FileVSources == <<VoltageSource(16, <<"a", "b">>), VoltageSource(32, <<"d", "e">>)>>

L1 == [Nodes |-> <<nm("a"), nm("b"), nm("c"), nm("d")>>]
L2 == [Nodes |-> <<nm("c"), nm("d"), nm("e")>>]

\* A loop block naming a pair of nodes (a, c) that no element joins.
L3 == [Nodes |-> <<nm("a"), nm("c"), nm("d")>>]

FileLoops == { <<L1>>, <<L1, L2>>, <<L1, L2, L1, L2>>, <<L1, L3>> }

InitRes ==
    /\ impl = "Problem2"
    /\ pipeHeap = <<>> /\ nodeHeap = <<>> /\ loopHeap = <<>>
    /\ lists = <<<<>>, <<>>, <<>>>> /\ nets = <<>> /\ ctorLog = <<>>
    /\ IdleSolver
    /\ rimpl \in {"Problem1", "Test2", "OOP12", "P2RN2"}
    /\ Resistors \in FileResistors
    /\ VSources = FileVSources
    /\ Loops \in FileLoops
    /\ dv = NoCall
    /\ FileTxt = <<>>
    /\ pc = At("net")

\* AnalyzeCircuit up to the call fsolve(self.GetKirchoffVals, i0).
AnalyzeCircuit ==
    /\ pc.at = "net"
    /\ x0' = InitialGuess(rimpl, Resistors)
    /\ pc' = At("fsolve")
    /\ UNCHANGED <<xcur, fcur, lastRes, lastX, ret, err, ier>>
    /\ UNCHANGED <<pipeVars, impl, resVars>>

\* One call GetKirchoffVals(i) made by the solver.
CallKirchoff(i) ==
    LET g == GetKirchoffVals(rimpl, i, Resistors, VSources, Loops)
    IN  /\ lastX' = i
        /\ Resistors' = g.rs
        /\ lastRes' = g.res

\* fsolve: the first call GetKirchoffVals(i0) and the shape check of its result.
KirchoffCheck ==
    /\ pc.at = "fsolve"
    /\ CallKirchoff(x0)
    /\ LET g == GetKirchoffVals(rimpl, x0, Resistors, VSources, Loops)
       IN  IF g.err # ""
           THEN err' = g.err /\ pc' = At("raised") /\ UNCHANGED <<xcur, fcur>>
           ELSE IF Len(g.res) # Len(x0)
           THEN err' = "TypeError" /\ pc' = At("raised") /\ UNCHANGED <<xcur, fcur>>
           ELSE xcur' = x0 /\ fcur' = g.res /\ pc' = At("hybrd") /\ UNCHANGED err
    /\ UNCHANGED <<pipeVars, impl, rimpl, VSources, Loops, dv, FileTxt, x0, ret, ier>>

\* Current vectors the solver tries (cut to the length of i0): zero, a
\* forward-difference step, the currents that satisfy both laws, and two others.
CurrentCands == {
    <<0, 0, 0, 0, 0>>, <<1, 0, 0, 0, 0>>, <<2, 6, 8, 0, 0>>,
    <<2, 6, 7, 0, 0>>, <<2, 6, 8, 1, 1>> }

CutTo(c, n) == [k \in 1..n |-> c[k]]

\* fsolve: one more call GetKirchoffVals(i); the solver keeps the point as
\* its iterate or does not.  hybrd ends as soon as an iterate it has moved
\* to has an all-zero residual.
KirchoffEval(c, accept) ==
    /\ pc.at = "hybrd"
    /\ ~AllZero(fcur) \/ xcur = x0
    /\ LET i == CutTo(c, Len(x0))
           g == GetKirchoffVals(rimpl, i, Resistors, VSources, Loops)
       IN  /\ CallKirchoff(i)
           /\ IF g.err # ""
              THEN err' = g.err /\ pc' = At("raised") /\ UNCHANGED <<xcur, fcur>>
              ELSE /\ UNCHANGED <<err, pc>>
                   /\ IF accept THEN xcur' = i /\ fcur' = g.res
                                ELSE UNCHANGED <<xcur, fcur>>
    /\ UNCHANGED <<pipeVars, impl, rimpl, VSources, Loops, dv, FileTxt, x0, ret, ier>>

\* fsolve ends with status i; AnalyzeCircuit returns the iterate alone (of
\* the tuple full_output = 1 gives, Problem 1.py keeps i[0] only).
KirchoffReturn(i) ==
    /\ pc.at = "hybrd"
    /\ AllZero(fcur) => i = 1
    /\ ier' = i
    /\ ret' = Some(xcur)
    /\ pc' = At("returned")
    /\ UNCHANGED <<x0, xcur, fcur, lastRes, lastX, err>>
    /\ UNCHANGED <<pipeVars, impl, resVars>>

\* Node names of the circuit, and the two-letter names a caller asks for.
CircuitNodes == {"a", "b", "c", "d", "e"}
SegmentNames == {<<x, y>> : x \in CircuitNodes, y \in CircuitNodes}

\* Net.GetElementDeltaV(name), called outside a solve.
CallGetElementDeltaV(name) ==
    /\ pc.at \in {"net", "returned", "raised"}
    /\ dv' = [called |-> TRUE, op |-> "GetElementDeltaV", name |-> name,
              ret |-> GetElementDeltaV(name, Resistors, VSources),
              sums |-> <<>>, err |-> ""]
    /\ UNCHANGED <<pipeVars, impl, solverVars, pc, rimpl, Resistors, VSources, Loops, FileTxt>>

\* Net.GetResistorByName(name), called outside a solve; the resistor object
\* returned is identified by its position in self.Resistors.
CallGetResistorByName(name) ==
    /\ pc.at \in {"net", "returned", "raised"}
    /\ dv' = [called |-> TRUE, op |-> "GetResistorByName", name |-> name,
              ret |-> IF GetResistorByName(name, Resistors) = 0 THEN None
                      ELSE Some(GetResistorByName(name, Resistors)),
              sums |-> <<>>, err |-> ""]
    /\ UNCHANGED <<pipeVars, impl, solverVars, pc, rimpl, Resistors, VSources, Loops, FileTxt>>

\* Net.GetLoopVoltageDrops(), called outside a solve.
CallGetLoopVoltageDrops ==
    /\ pc.at \in {"net", "returned", "raised"}
    /\ LET KVL == GetLoopVoltageDrops(Resistors, VSources, Loops)
       IN  dv' = [called |-> TRUE, op |-> "GetLoopVoltageDrops", name |-> <<>>,
                  ret |-> None, sums |-> KVL.val, err |-> KVL.err]
    /\ UNCHANGED <<pipeVars, impl, solverVars, pc, rimpl, Resistors, VSources, Loops, FileTxt>>

NextRes ==
    \/ AnalyzeCircuit
    \/ KirchoffCheck
    \/ \E c \in CurrentCands, accept \in BOOLEAN : KirchoffEval(c, accept)
    \/ \E i \in Iers : KirchoffReturn(i)
    \/ \E name \in SegmentNames : CallGetElementDeltaV(name)
    \/ \E name \in SegmentNames : CallGetResistorByName(name)
    \/ CallGetLoopVoltageDrops

SpecRes == InitRes /\ [][NextRes]_vars

\* Either program is run: main of the pipe network file, or a solve of a
\* resistor network.
InitSolve == InitMain \/ InitRes

PipeRun == rimpl = "" /\ NextMain
CircuitRun == rimpl # "" /\ NextRes

NextSolve == PipeRun \/ CircuitRun

SpecSolve == InitSolve /\ [][NextSolve]_vars

-----------------------------------------------------------------------------
(* The circuit file: BuildNetworkFromFile, MakeResistor, MakeVSource and   *)
(* MakeLoop of Problem 1.py ("Problem1") and Problem_1_Test_2.py ("Test2").*)
(* A line is the sequence of its characters; FileTxt is the list of lines  *)
(* open(filename).read().split('\n') gives.                                *)

Uppers == <<"A", "B", "C", "D", "E", "F", "G", "H", "I", "J", "K", "L", "M", "N", "O", "P", "Q", "R", "S", "T", "U", "V", "W", "X", "Y", "Z">>
Lowers == <<"a", "b", "c", "d", "e", "f", "g", "h", "i", "j", "k", "l", "m", "n", "o", "p", "q", "r", "s", "t", "u", "v", "w", "x", "y", "z">>
Digits == <<"0", "1", "2", "3", "4", "5", "6", "7", "8", "9">>

\* Python evaluates the arguments of a call once, before the call: the
\* operators below bind each argument to its value in the same way.
Value(S) == CHOOSE v \in S : TRUE

\* str.lower, one character and a whole line
LowerChar(c) ==
    IF \E k \in 1..Len(Uppers) : Uppers[k] = c
    THEN Lowers[CHOOSE k \in 1..Len(Uppers) : Uppers[k] = c]
    ELSE c
Lower(s0) == Value({ [k \in 1..Len(s) |-> LowerChar(s[k])] : s \in {s0} })

\* str.strip
Strip(s0) ==
    Value({ LET ink == {k \in 1..Len(s) : s[k] # " "}
            IN  IF ink = {} THEN <<>>
                ELSE SubSeq(s, CHOOSE k \in ink : \A j \in ink : k <= j,
                               CHOOSE k \in ink : \A j \in ink : j <= k)
          : s \in {s0} })

\* w in s
In(w, s0) ==
    Value({ \E k \in 0..(Len(s) - Len(w)) : SubSeq(s, k + 1, k + Len(w)) = w
          : s \in {s0} })

\* s.replace(" ", "")
RemoveSpaces(s) == SelectSeq(s, LAMBDA c : c # " ")

\* s.split(sep)
RECURSIVE Split(_, _)
Split(s0, sep) ==
    Value({ IF \A k \in 1..Len(s) : s[k] # sep THEN <<s>>
            ELSE Value({ <<SubSeq(s, 1, p - 1)>> \o Split(SubSeq(s, p + 1, Len(s)), sep)
                       : p \in { k \in 1..Len(s) :
                                   s[k] = sep /\ \A j \in 1..(k - 1) : s[j] # sep } })
          : s \in {s0} })

\* txt.split('=')[1].strip(), or the IndexError of [1]
ValueOf(txt) ==
    Value({ IF Len(parts) < 2 THEN [err |-> "IndexError: split('=')[1]", val |-> <<>>]
            ELSE [err |-> "", val |-> Strip(parts[2])]
          : parts \in {Split(txt, "=")} })

\* float(s) for the decimal integers the files hold; anything else is
\* rejected with ValueError.
RECURSIVE DecimalValue(_)
DecimalValue(s0) ==
    Value({ IF s = <<>> THEN 0
            ELSE 10 * DecimalValue(SubSeq(s, 1, Len(s) - 1))
                 + (CHOOSE d \in 0..9 : Digits[d + 1] = s[Len(s)])
          : s \in {s0} })
Float(s0) ==
    Value({ IF s # <<>> /\ \A k \in 1..Len(s) : \E d \in 1..10 : Digits[d] = s[k]
            THEN [err |-> "", val |-> DecimalValue(s)]
            ELSE [err |-> "ValueError", val |-> 0]
          : s \in {s0} })

KwResistor == <<"r", "e", "s", "i", "s", "t", "o", "r">>
KwSource == <<"s", "o", "u", "r", "c", "e">>
KwLoop == <<"l", "o", "o", "p">>
KwName == <<"n", "a", "m", "e">>
KwResistance == <<"r", "e", "s", "i", "s", "t", "a", "n", "c", "e">>
KwValue == <<"v", "a", "l", "u", "e">>
KwType == <<"t", "y", "p", "e">>
KwNodes == <<"n", "o", "d", "e", "s">>

\* Pieces of circuit files.
\* a resistor block
BlockResistorAD ==
    <<<<"<", "R", "e", "s", "i", "s", "t", "o", "r", ">">>,
      <<"N", "a", "m", "e", " ", "=", " ", "a", "d">>,
      <<"R", "e", "s", "i", "s", "t", "a", "n", "c", "e", " ", "=", " ", "2">>,
      <<"<", "/", "R", "e", "s", "i", "s", "t", "o", "r", ">">>>>
\* a resistor block with a blank line in it, fields in the other order
BlockResistorCE ==
    <<<<"<", "R", "e", "s", "i", "s", "t", "o", "r", ">">>,
      <<>>,
      <<"R", "e", "s", "i", "s", "t", "a", "n", "c", "e", " ", "=", " ", "4">>,
      <<"N", "a", "m", "e", " ", "=", " ", "c", "e">>,
      <<"<", "/", "R", "e", "s", "i", "s", "t", "o", "r", ">">>>>
\* a source block
BlockSourceAB ==
    <<<<"<", "S", "o", "u", "r", "c", "e", ">">>,
      <<"N", "a", "m", "e", " ", "=", " ", "a", "b">>,
      <<"T", "y", "p", "e", " ", "=", " ", "V", "o", "l", "t", "a", "g", "e">>,
      <<"V", "a", "l", "u", "e", " ", "=", " ", "1", "6">>,
      <<"<", "/", "S", "o", "u", "r", "c", "e", ">">>>>
\* a loop block
BlockLoopL1 ==
    <<<<"<", "L", "o", "o", "p", ">">>,
      <<"N", "a", "m", "e", " ", "=", " ", "L", "1">>,
      <<"N", "o", "d", "e", "s", " ", "=", " ", "a", ",", " ", "b", ",", " ", "c", ",", " ", "d">>,
      <<"<", "/", "L", "o", "o", "p", ">">>>>
\* a comment line
LineComment ==
    <<<<"#", " ", "R", "e", "s", "i", "s", "t", "o", "r", " ", "N", "a", "m", "e", " ", "=", " ", "c", "d">>>>
\* a blank line
LineBlank ==
    <<<<>>>>
\* a resistor block with the comment line in it
BlockResistorCommented ==
    <<<<"<", "R", "e", "s", "i", "s", "t", "o", "r", ">">>,
      <<"N", "a", "m", "e", " ", "=", " ", "a", "d">>,
      <<"#", " ", "R", "e", "s", "i", "s", "t", "o", "r", " ", "N", "a", "m", "e", " ", "=", " ", "c", "d">>,
      <<"R", "e", "s", "i", "s", "t", "a", "n", "c", "e", " ", "=", " ", "2">>,
      <<"<", "/", "R", "e", "s", "i", "s", "t", "o", "r", ">">>>>
\* a source block with the comment line in it
BlockSourceCommented ==
    <<<<"<", "S", "o", "u", "r", "c", "e", ">">>,
      <<"N", "a", "m", "e", " ", "=", " ", "a", "b">>,
      <<"#", " ", "R", "e", "s", "i", "s", "t", "o", "r", " ", "N", "a", "m", "e", " ", "=", " ", "c", "d">>,
      <<"V", "a", "l", "u", "e", " ", "=", " ", "1", "6">>,
      <<"<", "/", "S", "o", "u", "r", "c", "e", ">">>>>
\* a resistor block that is never closed
OpenResistor ==
    <<<<"<", "R", "e", "s", "i", "s", "t", "o", "r", ">">>,
      <<"N", "a", "m", "e", " ", "=", " ", "a", "d">>>>
\* a source block that is never closed
OpenSource ==
    <<<<"<", "S", "o", "u", "r", "c", "e", ">">>,
      <<"N", "a", "m", "e", " ", "=", " ", "a", "b">>>>
\* a loop block that is never closed
OpenLoop ==
    <<<<"<", "L", "o", "o", "p", ">">>,
      <<"N", "o", "d", "e", "s", " ", "=", " ", "a", ",", " ", "b">>>>
\* a resistor tag as the last line
OpenResistorTag ==
    <<<<"<", "R", "e", "s", "i", "s", "t", "o", "r", ">">>>>

\* Loop(): only Nodes; MakeLoop adds the attribute Name.
NewLoop == [Nodes |-> <<>>]

\* The attribute assignments one line of a resistor block makes.
ResistorLine(R0, txt0) ==
    Value({ LET R1 == IF In(KwName, txt) /\ v.err = "" THEN [R EXCEPT !.Name = v.val] ELSE R
            IN  IF In(KwName, txt) /\ v.err # "" THEN [err |-> v.err, el |-> R]
                ELSE IF ~In(KwResistance, txt) THEN [err |-> "", el |-> R1]
                ELSE IF v.err # "" THEN [err |-> v.err, el |-> R1]
                ELSE Value({ IF f.err # "" THEN [err |-> f.err, el |-> R1]
                             ELSE [err |-> "", el |-> [R1 EXCEPT !.Resistance = f.val]]
                           : f \in {Float(v.val)} })
          : R \in {R0}, txt \in {txt0}, v \in {ValueOf(txt0)} })

\* The attribute assignments one line of a source block makes (Type is an
\* attribute only once a line sets it).
VSourceLine(VS0, txt0) ==
    Value({ LET named == In(KwName, txt)
                valued == In(KwValue, txt)
                typed == In(KwType, txt)
                VS1 == IF named /\ v.err = "" THEN [VS EXCEPT !.Name = v.val] ELSE VS
                VS2 == IF valued /\ v.err = "" /\ f.err = "" THEN [VS1 EXCEPT !.Voltage = f.val]
                       ELSE VS1
                VS3 == IF typed /\ v.err = ""
                       THEN [Voltage |-> VS2.Voltage, Name |-> VS2.Name, Type |-> v.val]
                       ELSE VS2
            IN  IF (named \/ valued \/ typed) /\ v.err # "" THEN [err |-> v.err, el |-> VS]
                ELSE IF valued /\ f.err # "" THEN [err |-> f.err, el |-> VS1]
                ELSE [err |-> "", el |-> VS3]
          : VS \in {VS0}, txt \in {txt0}, v \in {ValueOf(txt0)},
            f \in {Float(ValueOf(txt0).val)} })

\* The attribute assignments one line of a loop block makes.
LoopLine(L0, txt0) ==
    Value({ LET named == In(KwName, txt)
                noded == In(KwNodes, txt)
                Ln == IF named /\ v.err = "" THEN [Nodes |-> L.Nodes, Name |-> v.val] ELSE L
            IN  IF named /\ v.err # "" THEN [err |-> v.err, el |-> L]
                ELSE IF ~noded THEN [err |-> "", el |-> Ln]
                ELSE IF vn.err # "" THEN [err |-> vn.err, el |-> Ln]
                ELSE [err |-> "", el |-> [Ln EXCEPT !.Nodes = Split(vn.val, ",")]]
          : L \in {L0}, txt \in {txt0}, v \in {ValueOf(txt0)},
            vn \in {ValueOf(RemoveSpaces(txt0))} })

\* The while loop of MakeResistor from line N (counted from 0): it ends at a
\* line containing "resistor" or at the end of Txt.
RECURSIVE ResistorLines(_, _, _)
ResistorLines(N0, Txt, R0) ==
    Value({ IF N >= Len(Txt) THEN [err |-> "", N |-> N, el |-> R]
            ELSE IF In(KwResistor, Lower(Txt[N + 1])) THEN [err |-> "", N |-> N, el |-> R]
            ELSE Value({ IF r.err # "" THEN [err |-> r.err, N |-> N, el |-> r.el]
                         ELSE ResistorLines(N + 1, Txt, r.el)
                       : r \in {ResistorLine(R, Lower(Txt[N + 1]))} })
          : N \in {N0}, R \in {R0} })

\* MakeResistor(N, Txt): the line number returned and the resistors appended.
\* With the tag on the last line Problem 1.py returns before the append and
\* Problem_1_Test_2.py appends the default resistor.
MakeResistor(variant, N, Txt) ==
    IF N + 1 >= Len(Txt)
    THEN [err |-> "", N |-> N + 1,
          add |-> IF variant = "Problem1" THEN <<>>
                  ELSE <<Resistor(1, 0, <<"a", "b">>)>>]
    ELSE Value({ [err |-> r.err, N |-> r.N, add |-> IF r.err = "" THEN <<r.el>> ELSE <<>>]
               : r \in {ResistorLines(N + 1, Txt, Resistor(1, 0, <<"a", "b">>))} })

\* The while loop of MakeVSource from line N: txt = Txt[N] is read without a
\* test of N.
RECURSIVE VSourceLines(_, _, _)
VSourceLines(N0, Txt, VS0) ==
    Value({ IF N >= Len(Txt) THEN [err |-> "IndexError: Txt[N]", N |-> N, el |-> VS]
            ELSE IF In(KwSource, Lower(Txt[N + 1])) THEN [err |-> "", N |-> N, el |-> VS]
            ELSE Value({ IF r.err # "" THEN [err |-> r.err, N |-> N, el |-> r.el]
                         ELSE VSourceLines(N + 1, Txt, r.el)
                       : r \in {VSourceLine(VS, Lower(Txt[N + 1]))} })
          : N \in {N0}, VS \in {VS0} })

\* MakeVSource returning the line before the closing line, so that the
\* closing line is read again by the caller.
MakeVSourceUnconsumed(N, Txt) ==
    Value({ [err |-> r.err, N |-> r.N - 1, add |-> IF r.err = "" THEN <<r.el>> ELSE <<>>]
          : r \in {VSourceLines(N + 1, Txt, VoltageSource(12, <<"a", "b">>))} })

\* MakeVSource(N, Txt)
MakeVSource(N, Txt) ==
    Value({ [err |-> r.err, N |-> r.N, add |-> IF r.err = "" THEN <<r.el>> ELSE <<>>]
          : r \in {VSourceLines(N + 1, Txt, VoltageSource(12, <<"a", "b">>))} })

\* The while loop of MakeLoop from line N: txt = Txt[N] is read without a
\* test of N.
RECURSIVE LoopLines(_, _, _)
LoopLines(N0, Txt, L0) ==
    Value({ IF N >= Len(Txt) THEN [err |-> "IndexError: Txt[N]", N |-> N, el |-> L]
            ELSE IF In(KwLoop, Lower(Txt[N + 1])) THEN [err |-> "", N |-> N, el |-> L]
            ELSE Value({ IF r.err # "" THEN [err |-> r.err, N |-> N, el |-> r.el]
                         ELSE LoopLines(N + 1, Txt, r.el)
                       : r \in {LoopLine(L, Lower(Txt[N + 1]))} })
          : N \in {N0}, L \in {L0} })

\* MakeLoop returning the line before the tag it was called at, so that the
\* caller reads the tag again.
MakeLoopAtTag(N, Txt) ==
    Value({ [err |-> r.err, N |-> N - 1, add |-> IF r.err = "" THEN <<r.el>> ELSE <<>>]
          : r \in {LoopLines(N + 1, Txt, NewLoop)} })

\* MakeLoop(N, Txt)
MakeLoop(N, Txt) ==
    Value({ [err |-> r.err, N |-> r.N, add |-> IF r.err = "" THEN <<r.el>> ELSE <<>>]
          : r \in {LoopLines(N + 1, Txt, NewLoop)} })

\* One iteration of the while loop of BuildNetworkFromFile at line LineNum
\* (counted from 0, LineNum < len(Txt)), with the lists built so far: the
\* lists after it and the line number after "LineNum += 1".
BuildStep(variant, LineNum0, Txt, net0) ==
    Value({ IF Len(lineTxt) < 1 THEN [LineNum |-> LineNum + 1, net |-> net]
            ELSE IF lineTxt[1] = "#" THEN [LineNum |-> LineNum + 1, net |-> net]
            ELSE IF In(KwResistor, lineTxt)
            THEN Value({ [LineNum |-> m.N + 1,
                          net |-> [net EXCEPT !.Resistors = @ \o m.add, !.err = m.err]]
                       : m \in {MakeResistor(variant, LineNum, Txt)} })
            ELSE IF In(KwSource, lineTxt)
            THEN Value({ [LineNum |-> m.N + 1,
                          net |-> [net EXCEPT !.VSources = @ \o m.add, !.err = m.err]]
                       : m \in {MakeVSource(LineNum, Txt)} })
            ELSE IF In(KwLoop, lineTxt)
            THEN Value({ [LineNum |-> m.N + 1,
                          net |-> [net EXCEPT !.Loops = @ \o m.add, !.err = m.err]]
                       : m \in {MakeLoop(LineNum, Txt)} })
            ELSE [LineNum |-> LineNum + 1, net |-> net]
          : LineNum \in {LineNum0}, net \in {net0},
            lineTxt \in {Strip(Lower(Txt[LineNum0 + 1]))} })

\* The while loop of BuildNetworkFromFile from line LineNum, with the lists
\* built so far; an exception ends it.
RECURSIVE BuildLines(_, _, _, _)
BuildLines(variant, LineNum, Txt, net) ==
    IF LineNum >= Len(Txt) THEN net
    ELSE Value({ IF s.net.err # "" THEN s.net
                 ELSE BuildLines(variant, s.LineNum, Txt, s.net)
               : s \in {BuildStep(variant, LineNum, Txt, net)} })

\* The lists as "self.Resistors = []", "self.VSources = []" and
\* "self.Loops = []" leave them.
Erased == [Resistors |-> <<>>, VSources |-> <<>>, Loops |-> <<>>, err |-> ""]

\* BuildNetworkFromFile on the lines Txt: the three lists as the call leaves
\* them and the exception it raised, if any.
ReadNetwork(variant, Txt0) ==
    Value({ BuildLines(variant, 0, Txt, Erased) : Txt \in {Txt0} })

\* BuildNetworkFromFile without the three assignments that erase the lists.
LoadKeeping(variant, Txt0, held) ==
    Value({ BuildLines(variant, 0, Txt, [held EXCEPT !.err = ""]) : Txt \in {Txt0} })

\* BuildNetworkFromFile on the lines Txt called on a network that holds the
\* lists held.
Load(variant, Txt, held) == ReadNetwork(variant, Txt)

\* Files: up to MaxPieces pieces, one after the other.
MaxPieces == 2

Pieces == { BlockResistorAD, BlockResistorCE, BlockSourceAB, BlockLoopL1,
            LineComment, LineBlank, BlockResistorCommented, BlockSourceCommented,
            OpenResistor, OpenSource, OpenLoop, OpenResistorTag }

RECURSIVE Flatten(_)
Flatten(ps) == IF ps = <<>> THEN <<>> ELSE ps[1] \o Flatten(Tail(ps))

FilesOf(P) == { Flatten(ps) : ps \in UNION { [1..n -> P] : n \in 0..MaxPieces } }

InitFile ==
    /\ impl = "Problem2"
    /\ pipeHeap = <<>> /\ nodeHeap = <<>> /\ loopHeap = <<>>
    /\ lists = <<<<>>, <<>>, <<>>>> /\ nets = <<>> /\ ctorLog = <<>>
    /\ IdleSolver
    /\ rimpl \in {"Problem1", "Test2"}
    /\ Resistors = <<>> /\ VSources = <<>> /\ Loops = <<>>
    /\ dv = NoCall
    /\ FileTxt \in FilesOf(Pieces)
    /\ pc = At("file")

\* The lists the network holds.
Held == [Resistors |-> Resistors, VSources |-> VSources, Loops |-> Loops, err |-> ""]

\* Net.BuildNetworkFromFile(filename)
BuildNetworkFromFile ==
    /\ pc.at = "file"
    /\ LET net == Load(rimpl, FileTxt, Held)
       IN  /\ Resistors' = net.Resistors
           /\ VSources' = net.VSources
           /\ Loops' = net.Loops
           /\ err' = net.err
           /\ pc' = IF net.err = "" THEN At("net") ELSE At("raised")
    /\ UNCHANGED <<pipeVars, impl, rimpl, dv, FileTxt>>
    /\ UNCHANGED <<x0, xcur, fcur, lastRes, lastX, ret, ier>>

\* Files loaded into a network that has been loaded before.
SecondFiles == FilesOf({BlockResistorAD, BlockSourceAB, LineComment})

\* Net.BuildNetworkFromFile(filename) on the network a first call has
\* loaded; k keeps the number of elements the network held at the call.
BuildNetworkFromFileAgain(Txt) ==
    /\ pc.at = "net"
    /\ FileTxt' = Txt
    /\ LET net == Load(rimpl, Txt, Held)
       IN  /\ Resistors' = net.Resistors
           /\ VSources' = net.VSources
           /\ Loops' = net.Loops
           /\ err' = net.err
           /\ pc' = [at |-> IF net.err = "" THEN "again" ELSE "raised",
                     k |-> Len(Resistors) + Len(VSources) + Len(Loops)]
    /\ UNCHANGED <<pipeVars, impl, rimpl, dv>>
    /\ UNCHANGED <<x0, xcur, fcur, lastRes, lastX, ret, ier>>

NextFile ==
    \/ BuildNetworkFromFile
    \/ \E Txt \in SecondFiles \cup {FileTxt} : BuildNetworkFromFileAgain(Txt)

SpecFile == InitFile /\ [][NextFile]_vars

\* BuildNetworkFromFile line by line: the lists have been erased and the
\* while loop is at line pc.k.
InitRead ==
    /\ impl = "Problem2"
    /\ pipeHeap = <<>> /\ nodeHeap = <<>> /\ loopHeap = <<>>
    /\ lists = <<<<>>, <<>>, <<>>>> /\ nets = <<>> /\ ctorLog = <<>>
    /\ IdleSolver
    /\ rimpl \in {"Problem1", "Test2"}
    /\ Resistors = <<>> /\ VSources = <<>> /\ Loops = <<>>
    /\ dv = NoCall
    /\ FileTxt \in FilesOf(Pieces)
    /\ pc = [at |-> "reading", k |-> 0]

\* One iteration of "while LineNum < FileLength".
ReadLine ==
    /\ pc.at = "reading" /\ pc.k < Len(FileTxt)
    /\ LET s == BuildStep(rimpl, pc.k, FileTxt, Held)
       IN  /\ Resistors' = s.net.Resistors
           /\ VSources' = s.net.VSources
           /\ Loops' = s.net.Loops
           /\ err' = s.net.err
           /\ pc' = IF s.net.err = "" THEN [at |-> "reading", k |-> s.LineNum]
                    ELSE [at |-> "raised", k |-> pc.k]
    /\ UNCHANGED <<pipeVars, impl, rimpl, dv, FileTxt>>
    /\ UNCHANGED <<x0, xcur, fcur, lastRes, lastX, ret, ier>>

\* The test "LineNum < FileLength" fails and BuildNetworkFromFile returns.
ReadEnd ==
    /\ pc.at = "reading" /\ pc.k >= Len(FileTxt)
    /\ pc' = [at |-> "net", k |-> pc.k]
    /\ UNCHANGED <<pipeVars, impl, rimpl, dv, FileTxt, Resistors, VSources, Loops>>
    /\ UNCHANGED solverVars

NextRead == ReadLine \/ ReadEnd

\* A call that has begun runs on until it returns or raises.
SpecRead == InitRead /\ [][NextRead]_vars /\ WF_vars(NextRead)

-----------------------------------------------------------------------------
(* Properties of the pipe network                                          *)

\* a <= b for Python strings
StrLeq(a, b) == ~StrLess(b, a)

\* C1 as stated: every pipe has startNode < endNode, strictly, whatever the
\* two names passed to the constructor.
C1_StrictOrientation ==
    \A k \in 1..Len(pipeHeap) :
        StrLess(pipeHeap[k].startNode, pipeHeap[k].endNode)

\* C1: every pipe stores the two names it was constructed from with
\* startNode <= endNode, and startNode < endNode when the two names differ.
C1_Orientation ==
    \A k \in 1..Len(pipeHeap) :
        LET p == pipeHeap[k]
            c == ctorLog[k]
        IN  /\ {p.startNode, p.endNode} = {c.Start, c.End}
            /\ StrLeq(p.startNode, p.endNode)
            /\ c.Start # c.End => StrLess(p.startNode, p.endNode)

\* A pipe was constructed with the larger name first and stores it last.
C1_Witness ==
    \E k \in 1..Len(pipeHeap) :
        /\ StrLess(ctorLog[k].End, ctorLog[k].Start)
        /\ pipeHeap[k].startNode = ctorLog[k].End
        /\ pipeHeap[k].endNode = ctorLog[k].Start

\* main is past its call of findFlowRates.
FindFlowRatesReturned ==
    /\ pc.at = "main"
    /\ \E k \in 1..(pc.k - 1) : MainScript[k].op = "findFlowRates"

\* C2: once findFlowRates has returned on the example network, the net flow
\* rate of every node is zero.
C2_NodesBalanced ==
    FindFlowRatesReturned =>
        \A k \in 1..Len(NetNodes(PN)) : getNetFlowRate(NetNodes(PN)[k], pipeHeap) = 0

\* C6: the vector fn returns has len(nodes) + len(loops) components, as many
\* as the initial guess Q0 of findFlowRates.
C6_SquareSystem ==
    x0 # <<>> =>
        /\ Len(fn(PN, x0, impl, 0)) = Len(lists[nets[PN].nodes]) + Len(lists[nets[PN].loops])
        /\ Len(fn(PN, x0, impl, 0)) = Len(x0)

\* The lists of instance n, by content.
NetContents(n) ==
    <<lists[nets[n].pipes], lists[nets[n].loops], lists[nets[n].nodes]>>

\* A step that appends to a list of instance n or runs buildNodes on it.
ActsOn(n) ==
    \/ \E p \in 1..Len(pipeHeap) : ApiAppendPipe(n, p)
    \/ ApiBuildNodes(n)
    \/ ApiAppendLoop(n)

\* C7: a step that appends a pipe or a loop to one PipeNetwork instance, or
\* runs buildNodes on it, leaves the lists of every other instance unchanged.
C7_NoSharedLists ==
    [][\A n \in 1..Len(nets), m \in 1..Len(nets) :
          (n # m /\ ActsOn(n)) => NetContents(m)' = NetContents(m)]_vars

\* C8: once the solve call has returned, it has returned a vector x and pipe
\* k of the network holds Q = x[k].
C8_FieldsHoldSolution ==
    FindFlowRatesReturned =>
        /\ ~ret.none
        /\ \A k \in 1..Len(NetPipes(PN)) :
              k <= Len(ret.val) /\ NetPipes(PN)[k].Q = ret.val[k]

-----------------------------------------------------------------------------
(* Properties of the resistor network                                      *)

\* AnalyzeCircuit has returned a vector at which the solver saw an all-zero
\* residual.
ReturnedAsRoot == pc.at = "returned" /\ ~ret.none /\ fcur # <<>> /\ AllZero(fcur)

\* C3: for any vector AnalyzeCircuit returns as a root (the solver having seen
\* an all-zero residual there), every loop sum GetLoopVoltageDrops computes
\* from the stored resistor currents is zero, and the net current into node c
\* is zero.
C3_RootSatisfiesLaws ==
    ReturnedAsRoot =>
        LET KVL == GetLoopVoltageDrops(Resistors, VSources, Loops)
        IN  /\ KVL.err = ""
            /\ AllZero(KVL.val)
            /\ Node_c_Current(rimpl, ret.val) = 0

\* C4: the vector GetKirchoffVals returns for a candidate i is the per-loop
\* voltage sums, in loop order, followed by the balance at node c computed
\* from i, and nothing else, in every variant.
C4_ResidualIsLawValues ==
    lastRes # <<>> =>
        lastRes = GetLoopVoltageDrops(Resistors, VSources, Loops).val
                      \o <<Node_c_Current(rimpl, lastX)>>

\* C5: whenever GetKirchoffVals has returned a vector during a solve, its
\* length is the number of loops plus one and equals the length of the
\* initial guess AnalyzeCircuit passed to the solver.
C5_ResidualLengthMatchesGuess ==
    lastRes # <<>> =>
        /\ Len(lastRes) = Len(Loops) + 1
        /\ Len(lastRes) = Len(x0)

\* A call of GetElementDeltaV is made in this step.
DeltaVCalled == dv' # dv /\ dv'.op = "GetElementDeltaV"

\* C9: a call of GetElementDeltaV whose name finds a voltage source returns
\* +Voltage when the name is the source's name and -Voltage when the name is
\* the reverse spelling of the source's name.
C9_SourceSignedByDirection ==
    [][ (DeltaVCalled /\ FirstNamed(Resistors, dv'.name) = 0
                      /\ FirstNamed(VSources, dv'.name) # 0) =>
            LET v == VSources[FirstNamed(VSources, dv'.name)]
            IN  IF dv'.name = v.Name THEN dv'.ret = Some(v.Voltage)
                                     ELSE dv'.ret = Some(-v.Voltage) ]_vars

\* C10 as stated: for a fixed stored current, the contribution returned for
\* the reverse spelling of a resistor's name is the negation of the
\* contribution returned for the name itself.
C10_ResistorSignedByDirection ==
    [][ (DeltaVCalled /\ FirstNamed(Resistors, dv'.name) # 0) =>
            LET r == Resistors[FirstNamed(Resistors, dv'.name)]
            IN  dv'.name # r.Name =>
                    dv'.ret = Some(-(GetElementDeltaV(r.Name, Resistors, VSources).val)) ]_vars

\* C10: a call of GetElementDeltaV whose name, in either spelling, finds a
\* resistor returns -(Current * Resistance) of that resistor: the magnitude is
\* Current * Resistance and the sign does not depend on the spelling.
C10_ResistorDropEitherSpelling ==
    [][ (DeltaVCalled /\ FirstNamed(Resistors, dv'.name) # 0) =>
            LET r == Resistors[FirstNamed(Resistors, dv'.name)]
            IN  dv'.ret = Some(-(r.Current * r.Resistance)) ]_vars

\* GetElementDeltaV has been called, after a solve, with the reverse spelling
\* of the name of a resistor that carries a nonzero current.
C10_Witness ==
    /\ pc.at = "returned"
    /\ dv.called /\ dv.op = "GetElementDeltaV"
    /\ FirstNamed(Resistors, dv.name) # 0
    /\ LET r == Resistors[FirstNamed(Resistors, dv.name)]
       IN  /\ dv.name # r.Name
           /\ r.Current # 0
           /\ dv.ret = Some(-(r.Current * r.Resistance))

\* A direct call of GetResistorByName, or of either by-name lookup, is made
\* in this step.
ByNameCalled == dv' # dv /\ dv'.op = "GetResistorByName"
LookupCalled == DeltaVCalled \/ ByNameCalled

\* The resistors stored under the node pair of a two-letter name, in either
\* spelling, and those stored under exactly that name.
StoredUnderPair(name) ==
    {k \in 1..Len(Resistors) :
        Resistors[k].Name = name \/ Resistors[k].Name = <<name[2], name[1]>>}
StoredUnderName(name) == {k \in 1..Len(Resistors) : Resistors[k].Name = name}

\* The first (lowest) index of a nonempty set of indexes.
FirstOf(S) == CHOOSE k \in S : \A j \in S : k <= j

LoopSum(Nodes) ==
    LET k == Len(Nodes)
        joining(x, y) == GetElementDeltaV(x \o y, Resistors, VSources).val
    IN  SumSeq([n \in 1..k |-> IF n < k THEN joining(Nodes[n], Nodes[n + 1])
                                        ELSE joining(Nodes[k], Nodes[1])])

GetLoopVoltageDropsReturned ==
    dv' # dv /\ dv'.op = "GetLoopVoltageDrops" /\ dv'.err = ""

\* C12: GetLoopVoltageDrops returns one sum per loop, in loop order, and the
\* sum of a loop of k nodes is that of exactly k segments: the k - 1
\* consecutive pairs and the closing segment between the last and first node.
C12_OneSumPerLoopWithClosingSegment ==
    [][ GetLoopVoltageDropsReturned =>
            /\ Len(dv'.sums) = Len(Loops)
            /\ \A l \in 1..Len(Loops) : dv'.sums[l] = LoopSum(Loops[l].Nodes) ]_vars

\* GetLoopVoltageDrops has returned, after a solve, for a network of two
\* loops whose closing segments carry current.
C12_Witness ==
    /\ pc.at = "returned"
    /\ dv.called /\ dv.op = "GetLoopVoltageDrops" /\ dv.err = ""
    /\ Len(Loops) = 2 /\ Len(dv.sums) = 2
    /\ \A k \in 1..Len(Resistors) : Resistors[k].Current # 0

\* C13: a lookup of a name that is not in the network (GetElementDeltaV of a
\* segment no resistor or source matches, GetResistorByName of an absent
\* name) raises an error; None is never returned to the caller, and a loop
\* sum over such a segment raises an error that names the segment.
C13_LookupFailsFast ==
    [][ /\ LookupCalled => (~dv'.ret.none \/ dv'.err # "")
        /\ (dv' # dv /\ dv'.op = "GetLoopVoltageDrops" /\ dv'.err # "") =>
              dv'.err = "LookupFailure" ]_vars

-----------------------------------------------------------------------------
(* Properties of the circuit file reader                                   *)

BuildNetworkFromFileDone == pc.at \in {"net", "raised"} /\ FileTxt # <<>>

\* C14: BuildNetworkFromFile never reads a line index past the end of the
\* file, also when the last resistor, source or loop block is never closed.
C14_NoReadPastEnd == err # "IndexError: Txt[N]"

\* A line BuildNetworkFromFile calls blank or a comment.
IsCommentOrBlank(line) ==
    LET t == Strip(Lower(line)) IN Len(t) < 1 \/ t[1] = "#"

WithoutCommentsAndBlanks(Txt) == SelectSeq(Txt, LAMBDA line : ~IsCommentOrBlank(line))

\* C15: comment lines and blank lines have no effect on the parsed network,
\* wherever they are: the file and the file without them give the same
\* resistors, sources and loops, and the same outcome.
C15_CommentsAndBlanksIgnored ==
    BuildNetworkFromFileDone =>
        LET ref == ReadNetwork(rimpl, WithoutCommentsAndBlanks(FileTxt))
        IN  /\ Resistors = ref.Resistors
            /\ VSources = ref.VSources
            /\ Loops = ref.Loops
            /\ err = ref.err

\* Well-formed pieces, and the element each block gives, as written in it.
WellFormedPieces == { BlockResistorAD, BlockResistorCE, BlockSourceAB, BlockLoopL1,
                      LineComment, LineBlank }

Given(piece) ==
    CASE piece = BlockResistorAD ->
            [kind |-> "resistor", el |-> Resistor(2, 0, <<"a", "d">>)]
      [] piece = BlockResistorCE ->
            [kind |-> "resistor", el |-> Resistor(4, 0, <<"c", "e">>)]
      [] piece = BlockSourceAB ->
            [kind |-> "source",
             el |-> [Voltage |-> 16, Name |-> <<"a", "b">>, Type |-> <<"V", "o", "l", "t", "a", "g", "e">>]]
      [] piece = BlockLoopL1 ->
            [kind |-> "loop",
             el |-> [Nodes |-> <<<<"a">>, <<"b">>, <<"c">>, <<"d">>>>, Name |-> <<"L", "1">>]]
      [] OTHER -> [kind |-> "", el |-> <<>>]

\* The elements of one kind the blocks of a file give, in file order.
GivenElements(ps, kind) ==
    LET blocks == SelectSeq(ps, LAMBDA piece : Given(piece).kind = kind)
    IN  [k \in 1..Len(blocks) |-> Given(blocks[k]).el]

\* The same with every text value in lower case.
LowerCased(el, kind) ==
    CASE kind = "resistor" -> [el EXCEPT !.Name = Lower(@)]
      [] kind = "source" -> [el EXCEPT !.Name = Lower(@), !.Type = Lower(@)]
      [] kind = "loop" ->
            [el EXCEPT !.Name = Lower(@),
                       !.Nodes = [k \in 1..Len(@) |-> Lower(@[k])]]

LowerCasedElements(ps, kind) ==
    [k \in 1..Len(GivenElements(ps, kind)) |-> LowerCased(GivenElements(ps, kind)[k], kind)]

WellFormedFiles == UNION { [1..n -> WellFormedPieces] : n \in 0..MaxPieces }

\* C16 as stated: a well-formed file gives one element per block, in file
\* order, with the fields its key = value lines give.
C16_OneElementPerBlockAsWritten ==
    \A ps \in WellFormedFiles :
        (BuildNetworkFromFileDone /\ FileTxt = Flatten(ps)) =>
            /\ err = ""
            /\ Resistors = GivenElements(ps, "resistor")
            /\ VSources = GivenElements(ps, "source")
            /\ Loops = GivenElements(ps, "loop")

\* C16: a well-formed file gives one element per block, in file order; the
\* closing line of a block opens no block; the fields are those its
\* key = value lines give, text values in lower case.
C16_OneElementPerBlock ==
    \A ps \in WellFormedFiles :
        (BuildNetworkFromFileDone /\ FileTxt = Flatten(ps)) =>
            /\ err = ""
            /\ Resistors = LowerCasedElements(ps, "resistor")
            /\ VSources = LowerCasedElements(ps, "source")
            /\ Loops = LowerCasedElements(ps, "loop")

\* A file of a source block followed by a loop block has been read.
C16_Witness ==
    /\ pc.at = "net"
    /\ FileTxt = Flatten(<<BlockSourceAB, BlockLoopL1>>)
    /\ Len(VSources) = 1 /\ Len(Loops) = 1

-----------------------------------------------------------------------------
(* Properties of the solve calls                                           *)

\* The solve call has returned to its caller.
SolveReturned == ier # 0 /\ ~ret.none

\* Does the call ask fsolve for full_output?  (Problem 1.py line 132 only)
FullOutput == rimpl = "Problem1"

\* C17: when the root finder ends without convergence, AnalyzeCircuit and
\* findFlowRates surface it: the call raises, or what it hands back marks
\* the outcome (here: at the least a warning is issued), so that the outcome
\* cannot be taken for that of a converged solve.
C17_NonConvergenceSurfaced ==
    (SolveReturned /\ ier # 1) => (err # "" \/ Warned(FullOutput, ier))

-----------------------------------------------------------------------------
(* Properties of Node, Pipe and Loop                                       *)

\* The pipes of a node that start at it, and the others.
StartingAt(nd) == {k \in 1..Len(nd.pipes) : pipeHeap[nd.pipes[k]].startNode = nd.name}
NotStartingAt(nd) == {k \in 1..Len(nd.pipes) : pipeHeap[nd.pipes[k]].startNode # nd.name}

RECURSIVE SumQ(_, _)
SumQ(nd, K) ==
    IF K = {} THEN 0
    ELSE LET k == CHOOSE j \in K : TRUE
         IN  pipeHeap[nd.pipes[k]].Q + SumQ(nd, K \ {k})

\* C18: Node.getNetFlowRate is extFlow, minus Q of every pipe of the node's
\* list that starts at the node, plus Q of every other pipe of the list.
C18_NetFlowRate ==
    \A k \in 1..Len(nodeHeap) :
        getNetFlowRate(nodeHeap[k], pipeHeap)
          = nodeHeap[k].extFlow - SumQ(nodeHeap[k], StartingAt(nodeHeap[k]))
                                + SumQ(nodeHeap[k], NotStartingAt(nodeHeap[k]))

\* The solver has set flows: some node with an external flow has a pipe
\* starting at it and a pipe ending at it that carry different flows.
C18_Witness ==
    /\ pc.at = "hybrd"
    /\ \E k \in 1..Len(nodeHeap) :
          /\ nodeHeap[k].extFlow # 0
          /\ \E i \in StartingAt(nodeHeap[k]), j \in NotStartingAt(nodeHeap[k]) :
                pipeHeap[nodeHeap[k].pipes[i]].Q # pipeHeap[nodeHeap[k].pipes[j]].Q

\* C19: Pipe.getFlowHeadLoss(s) is frictionHeadLoss() with the sign
\* nTraverse * nFlow: + when s is the start node and Q >= 0 or s is not the
\* start node and Q < 0, and - otherwise.
C19_FlowHeadLossSign ==
    \A k \in 1..Len(pipeHeap) : \A s \in {pipeHeap[k].startNode, pipeHeap[k].endNode} :
        \A z \in Draws :
            getFlowHeadLoss(pipeHeap[k], s, impl, z)
              = IF (s = pipeHeap[k].startNode) = (pipeHeap[k].Q >= 0)
                THEN frictionHeadLoss(pipeHeap[k], impl, z)
                ELSE -frictionHeadLoss(pipeHeap[k], impl, z)

\* The solver has set a negative flow in a pipe whose friction loss is not 0.
C19_Witness ==
    /\ pc.at = "hybrd"
    /\ \E k \in 1..Len(pipeHeap) :
          pipeHeap[k].Q < 0 /\ frictionHeadLoss(pipeHeap[k], impl, 0) # 0

\* The node a traversal is at before pipe k of a loop: the start node of the
\* first pipe, and after each pipe that pipe's other end.
RECURSIVE WalkNode(_, _)
WalkNode(lp, k) ==
    IF k = 1 THEN pipeHeap[lp.pipes[1]].startNode
    ELSE LET q == pipeHeap[lp.pipes[k - 1]]
         IN  IF WalkNode(lp, k - 1) = q.startNode THEN q.endNode ELSE q.startNode

\* C20: Loop.getLoopHeadLoss is the signed sum of the getFlowHeadLoss values
\* of its pipes along the traversal from pipes[0].startNode, in both Loop
\* implementations.
C20_SignedLoopSum ==
    \A l \in 1..Len(loopHeap) : \A z \in Draws :
        Len(loopHeap[l].pipes) > 0 =>
            getLoopHeadLoss(loopHeap[l], pipeHeap, impl, z)
              = SumSeq([k \in 1..Len(loopHeap[l].pipes) |->
                          getFlowHeadLoss(pipeHeap[loopHeap[l].pipes[k]],
                                          WalkNode(loopHeap[l], k), impl, z)])

-----------------------------------------------------------------------------
(* Properties of one Pipe object                                           *)

\* The step is a call of the method op of the pipe that returned.
PipeReturned(op) == pc'.at = "pipe" /\ pc'.k = pc.k + 1 /\ dv'.op = op

\* C21: Pipe.frictionHeadLoss returns f * L * v^2 / (2 * g * d) with g = 9.81,
\* f the value of FrictionFactor, and no further factor, in both Pipe
\* implementations.
C21_DarcyWeisbachOnly ==
    [][PipeReturned("frictionHeadLoss") =>
          \E z \in Draws :
              dv'.ret.val = DarcyWeisbach(FrictionFactor(pipeHeap'[1], z),
                                          pipeHeap'[1].length, pipeHeap'[1].vel,
                                          pipeHeap'[1].d)]_vars

\* The blend of the transition regime for the draw z.
Blend(re, d, z) ==
    LET m == lam(re) + (re - 2000) * TDiv(CB(re, d) - lam(re), 2000)
    IN  m + z * TDiv(2 * m, 10)

\* C22: Pipe.FrictionFactor selects its regime by the Reynolds number alone:
\* the Colebrook root for Re >= 4000, exactly 64/Re for Re <= 2000 (0.032 at
\* Re = 2000), the sampled blend only for 2000 < Re < 4000; outside that
\* interval the value does not depend on the draw.
C22_RegimeByReynolds ==
    [][PipeReturned("FrictionFactor") =>
          LET re == pipeHeap'[1].reynolds
              d == pipeHeap'[1].d
              f == dv'.ret.val
          IN  /\ re >= 4000 => f = CB(re, d)
              /\ re <= 2000 => f = lam(re)
              /\ re = 2000 => f = 32000000
              /\ (re > 2000 /\ re < 4000) => \E z \in Draws : f = Blend(re, d, z)
              /\ (re >= 4000 \/ re <= 2000) =>
                    \A z1, z2 \in Draws :
                        FrictionFactor(pipeHeap'[1], z1) = FrictionFactor(pipeHeap'[1], z2)]_vars

\* FrictionFactor has returned at each end of the transition interval: 0.032
\* at Re = 2000, or the Colebrook root at Re = 4000.
C22_Witness ==
    /\ dv.op = "FrictionFactor"
    /\ \/ pipeHeap[1].reynolds = 2000 /\ dv.ret.val = 32000000
       \/ pipeHeap[1].reynolds = 4000 /\ dv.ret.val = CB(4000, pipeHeap[1].d)

\* C23: the vel and reynolds a call of FrictionFactor, frictionHeadLoss or
\* getFlowHeadLoss uses are Q/A and rho*(Q/A)*d/mu for the Q the pipe holds
\* at the call, not for the Q it had at construction.
C23_DerivedFromCurrentFlow ==
    [][(\E op \in {"FrictionFactor", "frictionHeadLoss", "getFlowHeadLoss"} :
            PipeReturned(op)) =>
          /\ pipeHeap'[1].vel = V(pipeHeap'[1].Q, pipeHeap'[1].A)
          /\ pipeHeap'[1].reynolds
               = ReOf(pipeHeap'[1].fluid, V(pipeHeap'[1].Q, pipeHeap'[1].A),
                      pipeHeap'[1].d)]_vars

\* C24: traversed from its start node, a pipe has a head loss > 0 when Q > 0
\* and < 0 when Q < 0.
C24_LossAlongFlow ==
    [][(PipeReturned("getFlowHeadLoss") /\ dv'.name = pipeHeap'[1].startNode) =>
          /\ pipeHeap'[1].Q > 0 => dv'.ret.val > 0
          /\ pipeHeap'[1].Q < 0 => dv'.ret.val < 0]_vars

-----------------------------------------------------------------------------
(* Properties of the example network                                       *)

\* C25: for each loop of the example network the traversal of
\* getLoopHeadLoss is closed: every pipe visited has the traversal node as
\* one of its ends, and after the last pipe the traversal node is again
\* pipes[0].startNode.
C25_ClosedTraversal ==
    \A l \in 1..Len(loopHeap) :
        LET lp == loopHeap[l]
        IN  /\ \A k \in 1..Len(lp.pipes) :
                  oContainsNode(pipeHeap[lp.pipes[k]], TraversalNode(lp, pipeHeap, k))
            /\ TraversalNode(lp, pipeHeap, Len(lp.pipes) + 1)
                 = pipeHeap[lp.pipes[1]].startNode

\* The loops A, B and C exist, and the traversal of loop A reaches its third
\* pipe, d-e, at the end node of that pipe.
C25_Witness ==
    /\ Len(loopHeap) = 3
    /\ Len(loopHeap[1].pipes) = 5
    /\ TraversalNode(loopHeap[1], pipeHeap, 3) = pipeHeap[loopHeap[1].pipes[3]].endNode
    /\ pipeHeap[loopHeap[1].pipes[3]].endNode = <<"e">>

\* C26: in a network whose nodes were created by buildNodes, the sum over
\* all nodes of getNetFlowRate equals the sum of the external flows of the
\* nodes, whatever the flows in the pipes are.
C26_NetFlowsSumToExternal ==
    \A n \in 1..Len(nets) :
        SumSeq(getNodeFlowRates(n, pipeHeap))
          = SumSeq([k \in 1..Len(NetNodes(n)) |-> NetNodes(n)[k].extFlow])

\* The elements of a list.
Elems(s) == {s[k] : k \in 1..Len(s)}

\* The node list nl is right for the pipe list pl: one node per end name of
\* a pipe of pl, each with the pipes of pl that touch it, and buildNodes
\* adds nothing to it.
NodesMatchPipes(nl, nh, pl, ph) ==
    /\ \A k \in 1..Len(pl) : \A e \in {ph[pl[k]].startNode, ph[pl[k]].endNode} :
           Cardinality({j \in 1..Len(nl) : nh[nl[j]].name = e}) = 1
    /\ \A j \in 1..Len(nl) :
           /\ \E k \in 1..Len(pl) : oContainsNode(ph[pl[k]], nh[nl[j]].name)
           /\ Elems(nh[nl[j]].pipes)
                = {pl[k] : k \in {i \in 1..Len(pl) : oContainsNode(ph[pl[i]], nh[nl[j]].name)}}
    /\ buildNodes([nh |-> nh, nl |-> nl], pl, ph, 1).nl = nl

\* C29: after PipeNetwork.buildNodes the node list holds exactly one Node per
\* distinct pipe end name, the pipe list of each node is the set of the
\* network's pipes that have the node's name as startNode or endNode, and
\* another buildNodes adds no node.
C29_NodesMatchPipesAfterBuild ==
    [][\A n \in NetIds :
          ApiBuildNodes(n) =>
              NodesMatchPipes(lists'[nets'[n].nodes], nodeHeap',
                              lists'[nets'[n].pipes], pipeHeap')]_vars

-----------------------------------------------------------------------------
(* Properties of BuildNetworkFromFile as a loop                            *)

\* The lines of the file at which a block reader is called.
TagLines(kw) == {N \in 0..(Len(FileTxt) - 1) : In(kw, Strip(Lower(FileTxt[N + 1])))}

\* C27: BuildNetworkFromFile terminates on every finite input: every
\* iteration of the main loop moves the line index up, no block reader
\* returns an index smaller than the one it was given, and the call returns
\* or raises.
C27_Terminates ==
    /\ [][(pc.at = "reading" /\ pc'.at = "reading") => pc'.k > pc.k]_vars
    /\ [](/\ \A N \in TagLines(KwResistor) : MakeResistor(rimpl, N, FileTxt).N >= N
          /\ \A N \in TagLines(KwSource) : MakeVSource(N, FileTxt).N >= N
          /\ \A N \in TagLines(KwLoop) : MakeLoop(N, FileTxt).N >= N)
    /\ <>(pc.at # "reading")

\* The call has returned after a loop block and a further piece were read.
C27_Witness ==
    /\ pc.at = "net"
    /\ Len(Loops) = 1
    /\ Len(Resistors) + Len(VSources) = 1

\* C28: BuildNetworkFromFile erases what the network held: after a file is
\* loaded into a network that holds elements the three lists are those of
\* the file alone, and loading the same file again leaves them as they are.
C28_LoadErasesPrevious ==
    [][(pc.at = "net" /\ pc'.at # "net") =>
          /\ Resistors' = ReadNetwork(rimpl, FileTxt').Resistors
          /\ VSources' = ReadNetwork(rimpl, FileTxt').VSources
          /\ Loops' = ReadNetwork(rimpl, FileTxt').Loops
          /\ FileTxt' = FileTxt =>
                <<Resistors', VSources', Loops'>> = <<Resistors, VSources, Loops>>]_vars

\* A file with elements has been loaded into a network that held elements.
C28_Witness ==
    /\ pc.at = "again" /\ pc.k > 0
    /\ Len(Resistors) + Len(VSources) + Len(Loops) > 0

\* A step in which the solver evaluates a residual function: fn(q) of
\* findFlowRates, or GetKirchoffVals(i).
ResidualEvaluation ==
    \/ rimpl = "" /\ (FsolveCheck \/ \E c \in FlowCands, accept \in BOOLEAN : FsolveEval(c, accept))
    \/ rimpl # "" /\ (KirchoffCheck \/ \E c \in CurrentCands, accept \in BOOLEAN : KirchoffEval(c, accept))

\* A pipe without the fields a residual evaluation writes.
PipeFixed(p) == [p EXCEPT !.Q = 0, !.vel = 0, !.reynolds = 0]

\* C30: a residual evaluation changes nothing of the network but the Current
\* of resistors (GetKirchoffVals) and the Q, vel and reynolds of pipes (fn):
\* resistances, element names, voltage sources, loop definitions, nodes with
\* their external flows, and the element lists are as before.
C30_ResidualFrame ==
    [][ResidualEvaluation =>
        /\ Len(Resistors') = Len(Resistors)
        /\ \A k \in 1..Len(Resistors) :
              [Resistors'[k] EXCEPT !.Current = 0] = [Resistors[k] EXCEPT !.Current = 0]
        /\ VSources' = VSources /\ Loops' = Loops
        /\ Len(pipeHeap') = Len(pipeHeap)
        /\ \A k \in 1..Len(pipeHeap) : PipeFixed(pipeHeap'[k]) = PipeFixed(pipeHeap[k])
        /\ nodeHeap' = nodeHeap /\ loopHeap' = loopHeap
        /\ lists' = lists /\ nets' = nets]_vars

\* Residual evaluations have run and left a flow other than the initial 10
\* in a pipe.
C30_Witness ==
    /\ rimpl = "" /\ pc.at = "hybrd" /\ lastX # <<>>
    /\ \E k \in 1..Len(pipeHeap) : pipeHeap[k].Q # 10

=============================================================================
